---- MODULE Spec2Model ----
(***************************************************************************)
(* A model of src/freshrelease_mcp/server.py: the MCP tools that resolve   *)
(* human identifiers to Freshrelease ids and issue the HTTP requests.      *)
(*                                                                         *)
(* One tool invocation is modelled from its call to its return.  Every     *)
(* action is the code between two suspension points (an `await` on the     *)
(* HTTP client): the call action runs the code up to the first request,    *)
(* a response action draws one outcome of the pending request and runs the *)
(* code up to the next request or to the return.                           *)
(***************************************************************************)
EXTENDS Integers, Sequences, FiniteSets, TLC

VARIABLES
    FRESHRELEASE_DOMAIN,   \* TRUE iff the environment value is truthy
    FRESHRELEASE_API_KEY,  \* TRUE iff the environment value is truthy
    tool,                  \* the tool invoked, "idle" before the call
    pc,                    \* the suspension point the invocation waits at
    args,                  \* the arguments of the invocation
    payload,               \* fr_create_task: the request body under construction
    locals,                \* the local variables of the invocation
    requests,              \* the HTTP requests issued so far, in order
    responses,             \* the outcomes of the answered requests, in order
    result,                \* what the invocation returned or raised
    loop                   \* the event loop: which invocation runs, and the
                           \* frames of the invocations that do not

vars == <<FRESHRELEASE_DOMAIN, FRESHRELEASE_API_KEY, tool, pc, args, payload,
          locals, requests, responses, result, loop>>

(***************************************************************************)
(* Text.  A Python str is a sequence of one-character strings, so that     *)
(* str.strip() and str.lower() are computed, not assumed.                  *)
(***************************************************************************)
UpperAlphabet == <<"A","B","C","D","E","F","G","H","I","J","K","L","M",
                   "N","O","P","Q","R","S","T","U","V","W","X","Y","Z">>

LowerAlphabet == <<"a","b","c","d","e","f","g","h","i","j","k","l","m",
                   "n","o","p","q","r","s","t","u","v","w","x","y","z">>

LowerChar(c) ==
    IF \E i \in DOMAIN UpperAlphabet : UpperAlphabet[i] = c
    THEN LowerAlphabet[CHOOSE i \in DOMAIN UpperAlphabet : UpperAlphabet[i] = c]
    ELSE c

IsSpace(c) == c \in {" ", "\t", "\n", "\r"}

Lower(s) == [i \in DOMAIN s |-> LowerChar(s[i])]

RECURSIVE LStrip(_)
LStrip(s) == IF s # <<>> /\ IsSpace(Head(s)) THEN LStrip(Tail(s)) ELSE s

RECURSIVE RStrip(_)
RStrip(s) ==
    IF s # <<>> /\ IsSpace(s[Len(s)]) THEN RStrip(SubSeq(s, 1, Len(s) - 1)) ELSE s

Strip(s) == RStrip(LStrip(s))

\* x.strip().lower()
StripLower(s) == Lower(Strip(s))

(***************************************************************************)
(* JSON scalars that stand where an id is expected.  Every scalar has the  *)
(* same three fields so that any two can be compared.                      *)
(***************************************************************************)
PyNone == [t |-> "null", n |-> 0, s |-> <<>>]

JInt(n) == [t |-> "int", n |-> n, s |-> <<>>]

JStr(s) == [t |-> "str", n |-> 0, s |-> s]

Digits == <<"0","1","2","3","4","5","6","7","8","9">>

IsDigit(c) == \E i \in DOMAIN Digits : Digits[i] = c

DigitValue(c) == (CHOOSE i \in DOMAIN Digits : Digits[i] = c) - 1

RECURSIVE ParseDigits(_, _)
ParseDigits(s, acc) ==
    IF s = <<>> THEN acc ELSE ParseDigits(Tail(s), 10 * acc + DigitValue(Head(s)))

RECURSIVE FormatDigits(_)
FormatDigits(n) ==
    IF n < 10 THEN <<Digits[n + 1]>>
    ELSE Append(FormatDigits(n \div 10), Digits[(n % 10) + 1])

\* int(v) raises for None and for text that is not a decimal number
IntRaises(v) ==
    \/ v.t = "null"
    \/ v.t = "str" /\ (Strip(v.s) = <<>> \/ \E i \in DOMAIN Strip(v.s) : ~IsDigit(Strip(v.s)[i]))

\* int(v) where it does not raise (ids are not negative in the model)
IntOf(v) == IF v.t = "int" THEN v.n ELSE ParseDigits(Strip(v.s), 0)

\* str(v)
StrOf(v) ==
    CASE v.t = "int" -> FormatDigits(v.n)
      [] v.t = "str" -> v.s
      [] OTHER -> <<"N","o","n","e">>

\* the truth value Python gives a str or None argument
Truthy(v) == v.t = "str" /\ v.s # <<>>

(***************************************************************************)
(* Python dicts with text keys.                                            *)
(***************************************************************************)
EmptyDict == [k \in {} |-> PyNone]

\* d[key] = value
DictSet(d, key, value) ==
    [k \in DOMAIN d \cup {key} |-> IF k = key THEN value ELSE d[k]]

\* d.get(key), which is None for a missing key
DictGet(d, key) == IF key \in DOMAIN d THEN d[key] ELSE PyNone

(***************************************************************************)
(* The HTTP client.  A request is what client.get/post/put was called      *)
(* with; a response is one outcome of the awaited call:                    *)
(*   "transport"  the call raised something that is no HTTPStatusError     *)
(*   "status"     a response raise_for_status() rejects; json tells        *)
(*                whether its body parses as JSON                          *)
(*   "ok"         a 2xx response; json tells whether response.json()       *)
(*                parses, body is the parsed value                         *)
(***************************************************************************)
NoBody == <<>>

Request(method, path, key, body) ==
    [method |-> method, path |-> path, key |-> key, body |-> body]

TransportFault == [kind |-> "transport", json |-> FALSE, body |-> NoBody]

StatusError(json) ==
    [kind |-> "status", json |-> json,
     body |-> IF json THEN [error_body |-> "remote"] ELSE NoBody]

OkNotJson == [kind |-> "ok", json |-> FALSE, body |-> NoBody]

Ok(body) == [kind |-> "ok", json |-> TRUE, body |-> body]

\* the outcomes that never reach the code after response.json()
FailedResponses == {TransportFault, StatusError(TRUE), StatusError(FALSE), OkNotJson}

\* r is one of them: the request raised, raise_for_status() raised, or
\* response.json() raised
Failed(r) == r.kind # "ok" \/ ~r.json

(***************************************************************************)
(* What an invocation ends with: a returned value (an error dict when      *)
(* error is not "", with or without a "details" key) or an exception that  *)
(* leaves the tool function.                                               *)
(***************************************************************************)
NoDetails == [has |-> FALSE, none |-> FALSE, val |-> NoBody]

NoneDetails == [has |-> TRUE, none |-> TRUE, val |-> NoBody]

Details(v) == [has |-> TRUE, none |-> FALSE, val |-> v]

Pending == [kind |-> "none", error |-> "", details |-> NoDetails, value |-> NoBody]

ReturnValue(v) == [kind |-> "return", error |-> "", details |-> NoDetails, value |-> v]

ReturnError(msg, details) ==
    [kind |-> "return", error |-> msg, details |-> details, value |-> NoBody]

Raised(exc) == [kind |-> "raise", error |-> exc, details |-> NoDetails, value |-> NoBody]

ConfigError == ReturnError("FRESHRELEASE_DOMAIN or FRESHRELEASE_API_KEY is not set", NoDetails)

\* the configuration test with `and` in place of `or`
ConfigMissing_BothAbsent == ~FRESHRELEASE_DOMAIN /\ ~FRESHRELEASE_API_KEY

\* `if not FRESHRELEASE_DOMAIN or not FRESHRELEASE_API_KEY`
ConfigMissing == ~FRESHRELEASE_DOMAIN \/ ~FRESHRELEASE_API_KEY

\* `except httpx.HTTPStatusError as e: return {"error": ..., "details":
\* e.response.json() if e.response else None}`.  An httpx.Response has no
\* __bool__ or __len__, so `e.response` is true and e.response.json() runs
\* inside the handler: a body that is not JSON raises out of the function.
StatusErrorHandler(msg, r) ==
    IF r.json THEN ReturnError(msg, Details(r.body)) ELSE Raised("JSONDecodeError")

\* the except clauses every request of a tool sits in: HTTPStatusError
\* first, then Exception (a transport fault, or json() of a 2xx body that
\* does not parse)
RequestFailure(r, statusMsg, otherMsg) ==
    IF r.kind = "status" THEN StatusErrorHandler(statusMsg, r)
    ELSE ReturnError(otherMsg, NoDetails)

(***************************************************************************)
(* The steps an action ends with.                                          *)
(***************************************************************************)
Send(req, nextpc) ==
    /\ requests' = Append(requests, req)
    /\ pc' = nextpc
    /\ result' = result

Finish(res) ==
    /\ result' = res
    /\ pc' = "done"
    /\ requests' = requests

Answered(r) == responses' = Append(responses, r)

(***************************************************************************)
(* JSON bodies.  A list element is an object (isdict, with its fields in   *)
(* d, every field value a JSON scalar) or something without .get().        *)
(***************************************************************************)
Obj(d) == [isdict |-> TRUE, d |-> d]

NotObj == [isdict |-> FALSE, d |-> EmptyDict]

\* a body that is a JSON list, and one that is not
ListBody(items) == [islist |-> TRUE, items |-> items]

NotListBody == [islist |-> FALSE, items |-> <<>>]

\* str(item.get(field, "")).strip().lower()
FieldText(item, field) ==
    StripLower(IF field \in DOMAIN item.d THEN StrOf(item.d[field]) ELSE <<>>)

NotFoundScan == [raised |-> FALSE, found |-> FALSE, id |-> PyNone, at |-> 0]

RaisedScan == [raised |-> TRUE, found |-> FALSE, id |-> PyNone, at |-> 0]

\* `for item in items: text = str(item.get(field, "")).strip().lower();
\*  if [text and] text == target: id = item.get("id"); break`
\* item.get raises AttributeError on an element that is no object.
RECURSIVE ScanFor(_, _, _, _, _)
ScanFor(items, field, target, nonEmpty, i) ==
    IF i > Len(items) THEN NotFoundScan
    ELSE IF ~items[i].isdict THEN RaisedScan
    ELSE IF (nonEmpty => FieldText(items[i], field) # <<>>)
            /\ FieldText(items[i], field) = target
         THEN [raised |-> FALSE, found |-> TRUE, id |-> DictGet(items[i].d, "id"), at |-> i]
         ELSE ScanFor(items, field, target, nonEmpty, i + 1)

(***************************************************************************)
(* fr_create_task                                                          *)
(***************************************************************************)
s_task == <<"t","a","s","k">>

\* the protected names without "status"
protected_keys_NoStatus == {"title", "description", "assignee_id", "due_date", "issue_type_id"}

protected_keys == {"title", "description", "assignee_id", "status", "due_date", "issue_type_id"}

\* `status.value if isinstance(status, TASK_STATUS) else status`
StatusValue(status) == IF status.t = "enum" THEN JStr(status.s) ELSE status

\* lines 159-167: the body seeded with the explicit arguments
SeedPayload(a) ==
    LET p0 == DictSet(EmptyDict, "title", a.title)
        p1 == IF a.description # PyNone THEN DictSet(p0, "description", a.description) ELSE p0
        p2 == IF a.assignee_id # PyNone THEN DictSet(p1, "assignee_id", a.assignee_id) ELSE p1
        p3 == IF a.status # PyNone THEN DictSet(p2, "status", StatusValue(a.status)) ELSE p2
        p4 == IF a.due_date # PyNone THEN DictSet(p3, "due_date", a.due_date) ELSE p3
    IN  p4

\* lines 170-175: `for key, value in additional_fields.items(): if key in
\* protected_keys: continue; payload[key] = value`
MergeAdditional(p, additional_fields) ==
    [k \in DOMAIN p \cup (DOMAIN additional_fields \ protected_keys) |->
        IF k \in DOMAIN additional_fields \ protected_keys
        THEN additional_fields[k] ELSE p[k]]

\* lines 159-175.  additional_fields is None (given = FALSE) or a dict.
BuildPayload(a) ==
    IF a.additional_fields.given /\ DOMAIN a.additional_fields.d # {}
    THEN MergeAdditional(SeedPayload(a), a.additional_fields.d)
    ELSE SeedPayload(a)

\* the name without the default of line 180
NameToResolve_NoDefault(a) == a.issue_type_name.s

\* `name_to_resolve = (issue_type_name or "task")`
NameToResolve(a) == IF Truthy(a.issue_type_name) THEN a.issue_type_name.s ELSE s_task

\* lines 188-195: `types_list = it_data.get("issue_types", []) if
\* isinstance(it_data, dict) else []` and the loop over it.  it_data is
\* [isdict, has, islist, items]: has tells whether the key is there, islist
\* whether its value can be iterated as a list of types (None cannot).
MatchIssueType(it_data, name_to_resolve) ==
    IF ~it_data.isdict \/ ~it_data.has THEN NotFoundScan
    ELSE IF ~it_data.islist THEN RaisedScan
    ELSE ScanFor(it_data.items, "name", StripLower(name_to_resolve), FALSE, 1)

\* the resolver with the name tier before the email tier
ResolveUser_NameFirst(users_data, user) ==
    IF ~users_data.islist \/ users_data.items = <<>> THEN NotFoundScan
    ELSE
        LET lowered == StripLower(user)
            byEmail == ScanFor(users_data.items, "email", lowered, TRUE, 1)
            byName  == ScanFor(users_data.items, "name", lowered, TRUE, 1)
            first   == users_data.items[1]
        IN  IF byName.raised THEN RaisedScan
            ELSE IF byName.id # PyNone THEN byName
            ELSE IF byEmail.raised THEN RaisedScan
            ELSE IF byEmail.id # PyNone THEN byEmail
            ELSE IF ~first.isdict THEN RaisedScan
            ELSE [raised |-> FALSE, found |-> FALSE, id |-> DictGet(first.d, "id"), at |-> 1]

\* the resolver without the fallback of lines 229-230
ResolveUser_NoFallback(users_data, user) ==
    IF ~users_data.islist \/ users_data.items = <<>> THEN NotFoundScan
    ELSE
        LET lowered == StripLower(user)
            byEmail == ScanFor(users_data.items, "email", lowered, TRUE, 1)
            byName  == ScanFor(users_data.items, "name", lowered, TRUE, 1)
        IN  IF byEmail.raised THEN RaisedScan
            ELSE IF byEmail.id # PyNone THEN byEmail
            ELSE IF byName.raised THEN RaisedScan
            ELSE IF byName.id # PyNone THEN byName
            ELSE NotFoundScan

\* lines 212-230: the id chosen from the search result, or None
ResolveUser(users_data, user) ==
    IF ~users_data.islist \/ users_data.items = <<>> THEN NotFoundScan
    ELSE
        LET lowered == StripLower(user)
            byEmail == ScanFor(users_data.items, "email", lowered, TRUE, 1)
            byName  == ScanFor(users_data.items, "name", lowered, TRUE, 1)
            first   == users_data.items[1]
        IN  IF byEmail.raised THEN RaisedScan
            ELSE IF byEmail.id # PyNone THEN byEmail
            ELSE IF byName.raised THEN RaisedScan
            ELSE IF byName.id # PyNone THEN byName
            ELSE IF ~first.isdict THEN RaisedScan
            ELSE [raised |-> FALSE, found |-> FALSE, id |-> DictGet(first.d, "id"), at |-> 1]

\* the user search whenever user is given, an assignee id in the body or not
ResolveUserOrPost_IgnoresAssignee(a, p) ==
    IF Truthy(a.user)
    THEN Send(Request("GET", "/{project}/users", a.user.s, NoBody), "users")
    ELSE Send(Request("POST", "/{project}/issues", <<>>, p), "post")

\* lines 204-240: the user search when no assignee id is in the body and
\* user is given, else the POST
ResolveUserOrPost(a, p) ==
    IF "assignee_id" \notin DOMAIN p /\ Truthy(a.user)
    THEN Send(Request("GET", "/{project}/users", a.user.s, NoBody), "users")
    ELSE Send(Request("POST", "/{project}/issues", <<>>, p), "post")

\* lines 149-184
fr_create_task(a) ==
    /\ tool = "idle"
    /\ tool' = "fr_create_task"
    /\ args' = a
    /\ IF ConfigMissing
       THEN Finish(ConfigError) /\ payload' = payload
       ELSE /\ payload' = BuildPayload(a)
            /\ IF NameToResolve(a) # <<>>
               THEN Send(Request("GET", "/{project}/project_issue_types", <<>>, NoBody),
                         "issue_types")
               ELSE ResolveUserOrPost(a, payload')
    /\ UNCHANGED <<FRESHRELEASE_DOMAIN, FRESHRELEASE_API_KEY, loop, locals, responses>>

\* what a resolution step gives: the result to return (res), or Pending and
\* the id to go on with
StepReturn(res) == [res |-> res, id |-> PyNone]

StepId(id) == [res |-> Pending, id |-> id]

\* the issue-type resolution without the return of line 197
IssueTypeStep_NoNotFoundReturn(r, name_to_resolve) ==
    IF Failed(r)
    THEN StepReturn(RequestFailure(r, "Failed to resolve issue type",
                        "An unexpected error occurred while resolving issue type"))
    ELSE IF MatchIssueType(r.body, name_to_resolve).raised
    THEN StepReturn(ReturnError("An unexpected error occurred while resolving issue type",
                                NoDetails))
    ELSE StepId(MatchIssueType(r.body, name_to_resolve).id)

\* lines 184-202: the issue-type resolution, given the response
IssueTypeStep(r, name_to_resolve) ==
    IF Failed(r)
    THEN StepReturn(RequestFailure(r, "Failed to resolve issue type",
                        "An unexpected error occurred while resolving issue type"))
    ELSE IF MatchIssueType(r.body, name_to_resolve).raised
    THEN StepReturn(ReturnError("An unexpected error occurred while resolving issue type",
                                NoDetails))
    ELSE IF MatchIssueType(r.body, name_to_resolve).id = PyNone
    THEN StepReturn(ReturnError("Issue type not found", Details(r.body)))
    ELSE StepId(MatchIssueType(r.body, name_to_resolve).id)

\* lines 209-237: the user resolution, given the response
UserStep(r, user) ==
    IF Failed(r)
    THEN StepReturn(RequestFailure(r, "Failed to resolve user",
                        "An unexpected error occurred while resolving user"))
    ELSE IF ResolveUser(r.body, user).raised
    THEN StepReturn(ReturnError("An unexpected error occurred while resolving user", NoDetails))
    ELSE IF ResolveUser(r.body, user).id = PyNone
    THEN StepReturn(ReturnError("No users found matching", NoDetails))
    ELSE StepId(ResolveUser(r.body, user).id)

\* lines 184-202, then 204-240
CreateTask_IssueTypes(r) ==
    /\ tool = "fr_create_task" /\ pc = "issue_types"
    /\ Answered(r)
    /\ LET step == IssueTypeStep(r, NameToResolve(args)) IN
       IF step.res.kind # "none"
       THEN Finish(step.res) /\ payload' = payload
       ELSE /\ payload' = DictSet(payload, "issue_type_id", step.id)
            /\ ResolveUserOrPost(args, payload')
    /\ UNCHANGED <<FRESHRELEASE_DOMAIN, FRESHRELEASE_API_KEY, loop, tool, args, locals>>

\* lines 209-237, then 239-240
CreateTask_Users(r) ==
    /\ tool = "fr_create_task" /\ pc = "users"
    /\ Answered(r)
    /\ LET step == UserStep(r, args.user.s) IN
       IF step.res.kind # "none"
       THEN Finish(step.res) /\ payload' = payload
       ELSE /\ payload' = DictSet(payload, "assignee_id", step.id)
            /\ Send(Request("POST", "/{project}/issues", <<>>, payload'), "post")
    /\ UNCHANGED <<FRESHRELEASE_DOMAIN, FRESHRELEASE_API_KEY, loop, tool, args, locals>>

\* the create request sent again when it fails
CreateTask_Post_Retry(r) ==
    /\ tool = "fr_create_task" /\ pc = "post"
    /\ Answered(r)
    /\ IF Failed(r)
       THEN Send(Request("POST", "/{project}/issues", <<>>, payload), "post")
       ELSE Finish(ReturnValue(r.body))
    /\ UNCHANGED <<FRESHRELEASE_DOMAIN, FRESHRELEASE_API_KEY, loop, tool, args, payload, locals>>

\* lines 240-246
CreateTask_Post(r) ==
    /\ tool = "fr_create_task" /\ pc = "post"
    /\ Answered(r)
    /\ IF Failed(r)
       THEN Finish(RequestFailure(r, "Failed to create task", "An unexpected error occurred"))
       ELSE Finish(ReturnValue(r.body))
    /\ UNCHANGED <<FRESHRELEASE_DOMAIN, FRESHRELEASE_API_KEY, loop, tool, args, payload, locals>>

(***************************************************************************)
(* Key to id lookups: GET /{project}/test_cases/{key} and                  *)
(* GET /{project}/issues/{key}.  The operators give what the code does     *)
(* with the response of one lookup: the id, or the exception that leaves   *)
(* the helper ("status": httpx.HTTPStatusError, "other": anything else).   *)
(***************************************************************************)
Resolved(id) == [exc |-> "none", id |-> id]

Throws(exc) == [exc |-> exc, id |-> 0]

\* lines 373-378 and, for one key of the loop, lines 362-368
IdFromKeyResponse(r) ==
    IF r.kind = "transport" THEN Throws("other")
    ELSE IF r.kind = "status" THEN Throws("status")
    ELSE IF ~r.json THEN Throws("other")
    ELSE IF r.body.isdict /\ "id" \in DOMAIN r.body.d
         THEN IF IntRaises(r.body.d["id"]) THEN Throws("other")
              ELSE Resolved(IntOf(r.body.d["id"]))
         ELSE Throws("status")

\* the lookup with `data.get("id", 0)` in place of the raise of line 378
testcase_id_from_key_DefaultId(r) ==
    IF r.kind = "ok" /\ r.json /\ ~(r.body.isdict /\ "id" \in DOMAIN r.body.d)
    THEN Resolved(0)
    ELSE IdFromKeyResponse(r)

testcase_id_from_key(r) == IdFromKeyResponse(r)

\* the loop with `resolved.insert(0, ...)` in place of the append
issue_ids_from_keys_Prepend(resolved, r) ==
    IF IdFromKeyResponse(r).exc = "none"
    THEN Resolved(<<IdFromKeyResponse(r).id>> \o resolved)
    ELSE Throws(IdFromKeyResponse(r).exc)

\* one turn of the loop of issue_ids_from_keys: the list after the append
issue_ids_from_keys(resolved, r) ==
    IF IdFromKeyResponse(r).exc = "none"
    THEN Resolved(Append(resolved, IdFromKeyResponse(r).id))
    ELSE Throws(IdFromKeyResponse(r).exc)

(***************************************************************************)
(* fr_link_testcase_issues                                                 *)
(***************************************************************************)
\* lines 522-525: the except clauses around the whole body.  The response
\* of an HTTPStatusError raised by a helper for a body without id is the
\* 2xx response, whose body parsed.
LinkFailure(exc, r) ==
    IF exc = "status"
    THEN StatusErrorHandler("Failed to bulk update testcases", r)
    ELSE ReturnError("An unexpected error occurred", NoDetails)

\* lines 513-519: the next request of the body, given what is resolved
LinkContinue(a, tc_ids, issue_ids) ==
    IF Len(tc_ids) < Len(a.testcase_keys)
    THEN Send(Request("GET", "/{project}/test_cases/{key}",
                      StrOf(a.testcase_keys[Len(tc_ids) + 1]), NoBody), "link_testcase")
    ELSE IF Len(issue_ids) < Len(a.issue_keys)
    THEN Send(Request("GET", "/{project}/issues/{key}",
                      StrOf(a.issue_keys[Len(issue_ids) + 1]), NoBody), "link_issue")
    ELSE Send(Request("PUT", "/{project}/test_cases/update_many", <<>>,
                      [ids |-> tc_ids, test_case |-> [issue_ids |-> issue_ids]]), "link_put")

LinkLocals(tc_ids, issue_ids) == [resolved_testcase_ids |-> tc_ids, resolved |-> issue_ids]

\* lines 500-514
fr_link_testcase_issues(a) ==
    /\ tool = "idle"
    /\ tool' = "fr_link_testcase_issues"
    /\ args' = a
    /\ IF ConfigMissing
       THEN Finish(ConfigError) /\ locals' = locals
       ELSE /\ locals' = LinkLocals(<<>>, <<>>)
            /\ LinkContinue(a, <<>>, <<>>)
    /\ UNCHANGED <<FRESHRELEASE_DOMAIN, FRESHRELEASE_API_KEY, loop, payload, responses>>

\* line 514, one turn of the loop
Link_Testcase(r) ==
    /\ tool = "fr_link_testcase_issues" /\ pc = "link_testcase"
    /\ Answered(r)
    /\ LET got == testcase_id_from_key(r) IN
       IF got.exc # "none"
       THEN Finish(LinkFailure(got.exc, r)) /\ locals' = locals
       ELSE /\ locals' = LinkLocals(Append(locals.resolved_testcase_ids, got.id),
                                    locals.resolved)
            /\ LinkContinue(args, locals'.resolved_testcase_ids, locals'.resolved)
    /\ UNCHANGED <<FRESHRELEASE_DOMAIN, FRESHRELEASE_API_KEY, loop, tool, args, payload>>

\* line 516, one turn of the loop of issue_ids_from_keys
Link_Issue(r) ==
    /\ tool = "fr_link_testcase_issues" /\ pc = "link_issue"
    /\ Answered(r)
    /\ LET got == issue_ids_from_keys(locals.resolved, r) IN
       IF got.exc # "none"
       THEN Finish(LinkFailure(got.exc, r)) /\ locals' = locals
       ELSE /\ locals' = LinkLocals(locals.resolved_testcase_ids, got.id)
            /\ LinkContinue(args, locals'.resolved_testcase_ids, locals'.resolved)
    /\ UNCHANGED <<FRESHRELEASE_DOMAIN, FRESHRELEASE_API_KEY, loop, tool, args, payload>>

\* lines 519-525
Link_Put(r) ==
    /\ tool = "fr_link_testcase_issues" /\ pc = "link_put"
    /\ Answered(r)
    /\ IF Failed(r)
       THEN Finish(RequestFailure(r, "Failed to bulk update testcases",
                                  "An unexpected error occurred"))
       ELSE Finish(ReturnValue(r.body))
    /\ UNCHANGED <<FRESHRELEASE_DOMAIN, FRESHRELEASE_API_KEY, loop, tool, args, payload, locals>>

(***************************************************************************)
(* resolve_section_hierarchy_to_ids                                        *)
(***************************************************************************)
\* section_path.split('>')
RECURSIVE SplitOn(_, _, _)
SplitOn(s, sep, part) ==
    IF s = <<>> THEN <<part>>
    ELSE IF Head(s) = sep THEN <<part>> \o SplitOn(Tail(s), sep, <<>>)
    ELSE SplitOn(Tail(s), sep, Append(part, Head(s)))

\* line 386
PathParts(section_path) ==
    LET raw == SplitOn(section_path, ">", <<>>) IN [i \in DOMAIN raw |-> Strip(raw[i])]

\* the test of line 387 on the segment as split, not trimmed
PathIsEmpty_Untrimmed(section_path) == SplitOn(section_path, ">", <<>>)[1] = <<>>

\* line 387: the path is answered with [] before any request
PathIsEmpty(section_path) ==
    PathParts(section_path) = <<>> \/ PathParts(section_path)[1] = <<>>

\* the roots, and with them the sections whose parent is not in the listing
RootSections_WithOrphans(sections) ==
    LET IsRoot(x) ==
            \/ DictGet(x.d, "parent_id") = PyNone
            \/ \A j \in DOMAIN sections :
                  DictGet(sections[j].d, "id") # DictGet(x.d, "parent_id")
    IN  SelectSeq(sections, IsRoot)

\* every section of the listing, as if each were a root
RootSections_All(sections) == sections

\* lines 403-406
RootSections(sections) ==
    LET IsRoot(x) == DictGet(x.d, "parent_id") = PyNone IN SelectSeq(sections, IsRoot)

\* lines 407-410 and hierarchy.get(section_id, [])
Children(sections, section_id) ==
    LET IsChild(x) == DictGet(x.d, "parent_id") = section_id IN SelectSeq(sections, IsChild)

\* the search that follows only the first matching section of each level
RECURSIVE find_sections_by_path_FirstBranch(_, _, _)
find_sections_by_path_FirstBranch(sections, sections_list, remaining_path) ==
    IF remaining_path = <<>> \/ sections_list = <<>> THEN <<>>
    ELSE LET section == Head(sections_list)
             section_id == DictGet(section.d, "id")
         IN  IF FieldText(section, "name") = Lower(remaining_path[1])
                /\ section_id.t = "int"
             THEN IF Len(remaining_path) = 1 THEN <<section_id.n>>
                  ELSE find_sections_by_path_FirstBranch(sections,
                           Children(sections, section_id), Tail(remaining_path))
             ELSE find_sections_by_path_FirstBranch(sections, Tail(sections_list),
                                                    remaining_path)

\* lines 413-434
RECURSIVE find_sections_by_path(_, _, _)
find_sections_by_path(sections, sections_list, remaining_path) ==
    IF remaining_path = <<>>
    THEN LET HasIntId(x) == DictGet(x.d, "id").t = "int"
             kept == SelectSeq(sections_list, HasIntId)
         IN  [i \in DOMAIN kept |-> DictGet(kept[i].d, "id").n]
    ELSE IF sections_list = <<>> THEN <<>>
    ELSE LET section == Head(sections_list)
             section_id == DictGet(section.d, "id")
             here ==
                IF FieldText(section, "name") = Lower(remaining_path[1])
                   /\ section_id.t = "int"
                THEN IF Len(remaining_path) = 1 THEN <<section_id.n>>
                     ELSE find_sections_by_path(sections, Children(sections, section_id),
                                                Tail(remaining_path))
                ELSE <<>>
         IN  here \o find_sections_by_path(sections, Tail(sections_list), remaining_path)

\* the least and the greatest of a set of numbers
MinOf(S) == CHOOSE x \in S : \A y \in S : x <= y

MaxOf(S) == CHOOSE x \in S : \A y \in S : y <= x

\* the recursion that goes into the children at the last segment too
RECURSIVE RecursionDepth_PastLastSegment(_, _, _)
RecursionDepth_PastLastSegment(sections, sections_list, remaining_path) ==
    IF remaining_path = <<>> THEN 1
    ELSE LET entered ==
                {i \in DOMAIN sections_list :
                    /\ FieldText(sections_list[i], "name") = Lower(remaining_path[1])
                    /\ DictGet(sections_list[i].d, "id").t = "int"}
         IN  1 + MaxOf({0} \cup
                   {RecursionDepth_PastLastSegment(sections,
                        Children(sections, DictGet(sections_list[i].d, "id")),
                        Tail(remaining_path)) : i \in entered})

\* lines 413-434: how deep the calls of find_sections_by_path nest, the
\* call on (sections_list, remaining_path) counting as 1.  Line 431 is the
\* only call, made for a section whose name matches and whose id is an int
\* when more than one segment remains.
RECURSIVE RecursionDepth(_, _, _)
RecursionDepth(sections, sections_list, remaining_path) ==
    IF remaining_path = <<>> THEN 1
    ELSE LET entered ==
                {i \in DOMAIN sections_list :
                    /\ FieldText(sections_list[i], "name") = Lower(remaining_path[1])
                    /\ DictGet(sections_list[i].d, "id").t = "int"
                    /\ Len(remaining_path) > 1}
         IN  1 + MaxOf({0} \cup
                   {RecursionDepth(sections,
                        Children(sections, DictGet(sections_list[i].d, "id")),
                        Tail(remaining_path)) : i \in entered})

\* lines 392-437: what the helper does with the response of the sections
\* request: the ids (exc = "none") or the exception that leaves it
SectionIdsFromResponse(r, section_path) ==
    IF r.kind = "transport" THEN Throws("other")
    ELSE IF r.kind = "status" THEN Throws("status")
    ELSE IF ~r.json THEN Throws("other")
    ELSE IF ~r.body.islist THEN Throws("status")
    ELSE IF \E i \in DOMAIN r.body.items : ~r.body.items[i].isdict THEN Throws("other")
    ELSE Resolved(find_sections_by_path(r.body.items, RootSections(r.body.items),
                                        PathParts(section_path)))

(***************************************************************************)
(* fr_add_testcases_to_testrun                                             *)
(***************************************************************************)
\* an Optional[List] argument is None (given = FALSE) or a list
NoList == [given |-> FALSE, items |-> <<>>]

GivenList(items) == [given |-> TRUE, items |-> items]

\* `x or []`
OrEmpty(x) == IF x.given THEN x.items ELSE <<>>

\* `[str(sid) for sid in ids]`
StrEach(ids) == [i \in DOMAIN ids |-> StrOf(ids[i])]

\* the first path from index j on that needs the sections request, 0 if
\* none: resolve_section_hierarchy_to_ids returns [] at line 388 for the
\* others and the loop of line 644 goes on
RECURSIVE NextPath(_, _)
NextPath(paths, j) ==
    IF j > Len(paths) THEN 0
    ELSE IF PathIsEmpty(paths[j]) THEN NextPath(paths, j + 1)
    ELSE j

\* the payload with the caller's section_subtree_ids before the resolved
TestRunPayload_GivenFirst(a, tc_ids, sub_ids) ==
    [filter_rule |-> OrEmpty(a.filter_rule),
     test_case_ids |-> tc_ids,
     section_subtree_ids |-> StrEach(OrEmpty(a.section_subtree_ids)) \o sub_ids,
     section_ids |-> StrEach(OrEmpty(a.section_ids))]

\* the payload that never carries the caller's filter_rule
TestRunPayload_NoFilterRule(a, tc_ids, sub_ids) ==
    [filter_rule |-> <<>>,
     test_case_ids |-> tc_ids,
     section_subtree_ids |-> sub_ids \o StrEach(OrEmpty(a.section_subtree_ids)),
     section_ids |-> StrEach(OrEmpty(a.section_ids))]

\* lines 654-662
TestRunPayload(a, tc_ids, sub_ids) ==
    [filter_rule |-> OrEmpty(a.filter_rule),
     test_case_ids |-> tc_ids,
     section_subtree_ids |-> sub_ids \o StrEach(OrEmpty(a.section_subtree_ids)),
     section_ids |-> StrEach(OrEmpty(a.section_ids))]

TestRunLocals(tc_ids, sub_ids, path) ==
    [resolved_test_case_ids |-> tc_ids, resolved_section_subtree_ids |-> sub_ids,
     path |-> path]

\* lines 626-667: the next request, given what is resolved; j is the index
\* of the next path of the loop of line 644
TestRunContinue(a, tc_ids, sub_ids, j) ==
    IF Len(tc_ids) < Len(a.test_case_keys)
    THEN /\ Send(Request("GET", "/{project}/test_cases/{key}",
                         StrOf(a.test_case_keys[Len(tc_ids) + 1]), NoBody), "testrun_testcase")
         /\ locals' = TestRunLocals(tc_ids, sub_ids, 0)
    ELSE IF NextPath(OrEmpty(a.section_hierarchy_paths), j) # 0
    THEN /\ Send(Request("GET", "/{project}/sections", <<>>, NoBody), "testrun_sections")
         /\ locals' = TestRunLocals(tc_ids, sub_ids,
                                    NextPath(OrEmpty(a.section_hierarchy_paths), j))
    ELSE /\ Send(Request("PUT", "/{project}/test_runs/{id}/test_cases", <<>>,
                         TestRunPayload(a, tc_ids, sub_ids)), "testrun_put")
         /\ locals' = TestRunLocals(tc_ids, sub_ids, 0)

\* lines 614-629
fr_add_testcases_to_testrun(a) ==
    /\ tool = "idle"
    /\ tool' = "fr_add_testcases_to_testrun"
    /\ args' = a
    /\ IF ConfigMissing
       THEN Finish(ConfigError) /\ locals' = locals
       ELSE TestRunContinue(a, <<>>, <<>>, 1)
    /\ UNCHANGED <<FRESHRELEASE_DOMAIN, FRESHRELEASE_API_KEY, loop, payload, responses>>

\* lines 629-639, one turn of the loop
TestRun_Testcase(r) ==
    /\ tool = "fr_add_testcases_to_testrun" /\ pc = "testrun_testcase"
    /\ Answered(r)
    /\ IF Failed(r)
       THEN /\ Finish(RequestFailure(r, "Failed to resolve test case key",
                   "An unexpected error occurred while resolving test case key"))
            /\ locals' = locals
       ELSE IF r.body.isdict /\ "id" \in DOMAIN r.body.d
       THEN TestRunContinue(args,
                Append(locals.resolved_test_case_ids, StrOf(r.body.d["id"])),
                locals.resolved_section_subtree_ids, 1)
       ELSE /\ Finish(ReturnError("Unexpected test case response structure for key",
                                  Details(r.body)))
            /\ locals' = locals
    /\ UNCHANGED <<FRESHRELEASE_DOMAIN, FRESHRELEASE_API_KEY, loop, tool, args, payload>>

\* lines 646-651, one turn of the loop
TestRun_Sections(r) ==
    /\ tool = "fr_add_testcases_to_testrun" /\ pc = "testrun_sections"
    /\ Answered(r)
    /\ LET path == OrEmpty(args.section_hierarchy_paths)[locals.path]
           got == SectionIdsFromResponse(r, path)
       IN  IF got.exc = "status"
           THEN /\ Finish(StatusErrorHandler("Failed to resolve section hierarchy path", r))
                /\ locals' = locals
           ELSE IF got.exc = "other"
           THEN /\ Finish(ReturnError(
                       "An unexpected error occurred while resolving section hierarchy path",
                       NoDetails))
                /\ locals' = locals
           ELSE TestRunContinue(args, locals.resolved_test_case_ids,
                    locals.resolved_section_subtree_ids
                        \o [i \in DOMAIN got.id |-> FormatDigits(got.id[i])],
                    locals.path + 1)
    /\ UNCHANGED <<FRESHRELEASE_DOMAIN, FRESHRELEASE_API_KEY, loop, tool, args, payload>>

\* lines 667-673
TestRun_Put(r) ==
    /\ tool = "fr_add_testcases_to_testrun" /\ pc = "testrun_put"
    /\ Answered(r)
    /\ IF Failed(r)
       THEN Finish(RequestFailure(r, "Failed to add test cases to test run",
                                  "An unexpected error occurred"))
       ELSE Finish(ReturnValue(r.body))
    /\ UNCHANGED <<FRESHRELEASE_DOMAIN, FRESHRELEASE_API_KEY, loop, tool, args, payload, locals>>

(***************************************************************************)
(* The tools that issue one request and return its JSON.                   *)
(***************************************************************************)
\* the configuration check, then the request
SingleRequestCall(name, a, req) ==
    /\ tool = "idle"
    /\ tool' = name
    /\ args' = a
    /\ IF ConfigMissing THEN Finish(ConfigError) ELSE Send(req, "single")
    /\ UNCHANGED <<FRESHRELEASE_DOMAIN, FRESHRELEASE_API_KEY, loop, payload, locals, responses>>

\* lines 75-90
fr_create_project(a) ==
    SingleRequestCall("fr_create_project", a,
        Request("POST", "/projects", <<>>,
                IF a.description # PyNone
                THEN [name |-> a.name, description |-> a.description]
                ELSE [name |-> a.name]))

\* lines 105-117
fr_get_project(a) ==
    SingleRequestCall("fr_get_project", a,
        Request("GET", "/projects/{id}", StrOf(a.project_identifier), NoBody))

\* lines 252-264
fr_get_task(a) ==
    SingleRequestCall("fr_get_task", a,
        Request("GET", "/{project}/issues/{key}", StrOf(a.key), NoBody))

\* lines 275-287
fr_get_all_tasks(a) ==
    SingleRequestCall("fr_get_all_tasks", a,
        Request("GET", "/{project}/issues", <<>>, NoBody))

\* lines 337-350
fr_search_users(a) ==
    SingleRequestCall("fr_search_users", a,
        Request("GET", "/{project}/users", a.search_text, NoBody))

\* lines 445-457
fr_list_testcases(a) ==
    SingleRequestCall("fr_list_testcases", a,
        Request("GET", "/{project}/test_cases", <<>>, NoBody))

\* lines 471-483
fr_get_testcase(a) ==
    SingleRequestCall("fr_get_testcase", a,
        Request("GET", "/{project}/test_cases/{key}", StrOf(a.test_case_key), NoBody))

\* the text the HTTPStatusError clause of each of them puts before the error
SingleRequestMessage(name) ==
    CASE name = "fr_create_project" -> "Failed to create project"
      [] name = "fr_get_project" -> "Failed to fetch project"
      [] name = "fr_get_task" -> "Failed to fetch task"
      [] name = "fr_get_all_tasks" -> "Failed to fetch task"
      [] name = "fr_search_users" -> "Failed to search users"
      [] name = "fr_list_testcases" -> "Failed to list test cases"
      [] name = "fr_get_testcase" -> "Failed to get test case"

\* lines 90-96, 117-123, 264-270, 287-293, 350-356, 457-463, 483-489
SingleRequest_Response(r) ==
    /\ pc = "single"
    /\ Answered(r)
    /\ IF Failed(r)
       THEN Finish(RequestFailure(r, SingleRequestMessage(tool),
                                  "An unexpected error occurred"))
       ELSE Finish(ReturnValue(r.body))
    /\ UNCHANGED <<FRESHRELEASE_DOMAIN, FRESHRELEASE_API_KEY, loop, tool, args, payload, locals>>

(***************************************************************************)
(* fr_get_issue_type_by_name                                               *)
(***************************************************************************)
\* lines 302-314
fr_get_issue_type_by_name(a) ==
    /\ tool = "idle"
    /\ tool' = "fr_get_issue_type_by_name"
    /\ args' = a
    /\ IF ConfigMissing
       THEN Finish(ConfigError)
       ELSE Send(Request("GET", "/{project}/issue_types", <<>>, NoBody), "issue_type_by_name")
    /\ UNCHANGED <<FRESHRELEASE_DOMAIN, FRESHRELEASE_API_KEY, loop, payload, locals, responses>>

\* lines 314-329
IssueTypeByName_Response(r) ==
    /\ tool = "fr_get_issue_type_by_name" /\ pc = "issue_type_by_name"
    /\ Answered(r)
    /\ IF Failed(r)
       THEN Finish(RequestFailure(r, "Failed to fetch issue types",
                                  "An unexpected error occurred"))
       ELSE IF ~r.body.islist
       THEN Finish(ReturnError("Unexpected response structure for issue types",
                               Details(r.body)))
       ELSE LET m == ScanFor(r.body.items, "name", StripLower(args.issue_type_name), FALSE, 1)
            IN  IF m.raised THEN Finish(ReturnError("An unexpected error occurred", NoDetails))
                ELSE IF m.found THEN Finish(ReturnValue(r.body.items[m.at]))
                ELSE Finish(ReturnError("Issue type not found", NoDetails))
    /\ UNCHANGED <<FRESHRELEASE_DOMAIN, FRESHRELEASE_API_KEY, loop, tool, args, payload, locals>>

(***************************************************************************)
(* fr_get_testcases_by_section                                             *)
(***************************************************************************)
BySectionLocals(matched_ids, all_results) ==
    [matched_ids |-> matched_ids, all_results |-> all_results]

\* lines 535-548
fr_get_testcases_by_section(a) ==
    /\ tool = "idle"
    /\ tool' = "fr_get_testcases_by_section"
    /\ args' = a
    /\ IF ConfigMissing
       THEN Finish(ConfigError)
       ELSE Send(Request("GET", "/{project}/sections", <<>>, NoBody), "by_section_sections")
    /\ UNCHANGED <<FRESHRELEASE_DOMAIN, FRESHRELEASE_API_KEY, loop, payload, locals, responses>>

\* lines 556-564: the ids of the sections of that name; the loop is outside
\* every try block
MatchedSectionIds(sections, section_name) ==
    LET Matches(x) == /\ FieldText(x, "name") = StripLower(section_name)
                      /\ DictGet(x.d, "id").t = "int"
        kept == SelectSeq(sections, Matches)
    IN  [i \in DOMAIN kept |-> DictGet(kept[i].d, "id").n]

\* lines 575-577: the request for the k-th matched section
BySectionRequest(matched_ids, k) ==
    Request("GET", "/{project}/test_cases", FormatDigits(matched_ids[k]), NoBody)

\* lines 548-577
BySection_Sections(r) ==
    /\ tool = "fr_get_testcases_by_section" /\ pc = "by_section_sections"
    /\ Answered(r)
    /\ IF Failed(r)
       THEN /\ Finish(RequestFailure(r, "Failed to fetch sections",
                   "An unexpected error occurred while fetching sections"))
            /\ locals' = locals
       ELSE IF ~r.body.islist
       THEN /\ Finish(ReturnError("Unexpected sections response structure", Details(r.body)))
            /\ locals' = locals
       ELSE IF \E i \in DOMAIN r.body.items : ~r.body.items[i].isdict
       THEN Finish(Raised("AttributeError")) /\ locals' = locals
       ELSE LET matched_ids == MatchedSectionIds(r.body.items, args.section_name) IN
            IF matched_ids = <<>>
            THEN Finish(ReturnError("Section named not found", NoDetails)) /\ locals' = locals
            ELSE /\ locals' = BySectionLocals(matched_ids, <<>>)
                 /\ Send(BySectionRequest(matched_ids, 1), "by_section_testcases")
    /\ UNCHANGED <<FRESHRELEASE_DOMAIN, FRESHRELEASE_API_KEY, loop, tool, args, payload>>

\* the requests for test cases issued so far
BySectionAsked == Len(requests) - 1

\* lines 577-590, one turn of the loop
BySection_Testcases(r) ==
    /\ tool = "fr_get_testcases_by_section" /\ pc = "by_section_testcases"
    /\ Answered(r)
    /\ IF Failed(r)
       THEN /\ Finish(RequestFailure(r, "Failed to fetch test cases for section",
                   "An unexpected error occurred while fetching test cases"))
            /\ locals' = locals
       ELSE /\ locals' = BySectionLocals(locals.matched_ids,
                    IF r.body.islist THEN locals.all_results \o r.body.items
                    ELSE Append(locals.all_results, r.body))
            /\ IF BySectionAsked < Len(locals.matched_ids)
               THEN Send(BySectionRequest(locals.matched_ids, BySectionAsked + 1),
                         "by_section_testcases")
               ELSE Finish(ReturnValue(locals'.all_results))
    /\ UNCHANGED <<FRESHRELEASE_DOMAIN, FRESHRELEASE_API_KEY, loop, tool, args, payload>>

(***************************************************************************)
(* Inputs: the arguments a caller passes and the outcomes the remote API   *)
(* gives, drawn from small sets.                                           *)
(***************************************************************************)
MaxKeys == 2     \* the longest key list of a call

MaxUsers == 2    \* the longest user search result

SeqsUpTo(S, n) == UNION {[1..k -> S] : k \in 0..n}

s_a == <<"a">>

s_A_ == <<"A", " ">>

s_b == <<"b">>

s__B == <<" ", "B">>

s_x == <<"x">>

s_bug == <<"b","u","g">>

\* the i-th key of a key list: text keys and numeric keys alternate
Key(i) == IF i % 2 = 1 THEN JStr(<<"K", Digits[(i % 10) + 1]>>) ELSE JInt(i)

KeyLists == {[i \in 1..n |-> Key(i)] : n \in 0..MaxKeys}

\* the outcomes of a request whose body the tool returns unread
PlainResponses == FailedResponses \cup {Ok(Obj(EmptyDict))}

\* the outcomes of a key lookup: an object with an id (a number, a number
\* as text, text that is no number), an object without, no object
KeyResponses ==
    FailedResponses \cup
    {Ok(NotObj), Ok(Obj(EmptyDict)),
     Ok(Obj(DictSet(EmptyDict, "id", JInt(1)))),
     Ok(Obj(DictSet(EmptyDict, "id", JStr(<<"2">>)))),
     Ok(Obj(DictSet(EmptyDict, "id", JStr(s_x))))}

\* an object of a listing: name and id, either of them possibly missing
Named(name, id) ==
    LET d0 == IF name # PyNone THEN DictSet(EmptyDict, "name", name) ELSE EmptyDict
        d1 == IF id # PyNone THEN DictSet(d0, "id", id) ELSE d0
    IN  Obj(d1)

IssueTypes(has, islist, items) ==
    [isdict |-> TRUE, has |-> has, islist |-> islist, items |-> items]

NotDictIssueTypes == [isdict |-> FALSE, has |-> FALSE, islist |-> FALSE, items |-> <<>>]

IssueTypeListings ==
    {<<>>,
     <<Named(JStr(<<"T","a","s","k">>), JInt(1)), Named(JStr(<<"b","u","g"," ">>), JInt(2))>>,
     <<Named(JStr(s_task), PyNone), Named(JStr(s_task), JInt(3))>>,
     <<Named(PyNone, JInt(4)), Named(JStr(<<"B","u","g">>), JStr(<<"5">>))>>,
     <<Named(JStr(s_bug), JInt(6)), NotObj, Named(JStr(s_task), JInt(7))>>}

IssueTypesResponses ==
    FailedResponses \cup
    {Ok(NotDictIssueTypes), Ok(IssueTypes(FALSE, FALSE, <<>>)), Ok(IssueTypes(TRUE, FALSE, <<>>))}
    \cup {Ok(IssueTypes(TRUE, TRUE, l)) : l \in IssueTypeListings}

\* a user of a search result: id, email and name, each possibly missing
User(id, email, name) ==
    LET d0 == IF id # PyNone THEN DictSet(EmptyDict, "id", id) ELSE EmptyDict
        d1 == IF email # PyNone THEN DictSet(d0, "email", email) ELSE d0
        d2 == IF name # PyNone THEN DictSet(d1, "name", name) ELSE d1
    IN  Obj(d2)

UserListings ==
    {<<>>,
     <<NotObj>>,
     <<User(JInt(1), JStr(s_b), JStr(s_a)), User(JInt(2), JStr(s_A_), JStr(s_b))>>,
     <<User(PyNone, JStr(s_a), PyNone), User(JInt(3), PyNone, JStr(s_a))>>,
     <<User(PyNone, PyNone, JStr(s_b))>>,
     <<User(JInt(4), PyNone, PyNone), NotObj>>}

UsersResponses ==
    FailedResponses \cup {Ok(NotListBody)} \cup {Ok(ListBody(l)) : l \in UserListings}

\* additional_fields: None, or a dict
NoFields == [given |-> FALSE, d |-> EmptyDict]

Fields(d) == [given |-> TRUE, d |-> d]

CreateTaskArgsOf(descriptions, assignee_ids, statuses, due_dates, names, users, fields) ==
    [title : {JStr(<<"t">>)}, description : descriptions, assignee_id : assignee_ids,
     status : statuses, due_date : due_dates, issue_type_name : names, user : users,
     additional_fields : fields]

CreateTaskArgs ==
    CreateTaskArgsOf({PyNone}, {PyNone, JInt(0), JInt(7)}, {PyNone}, {PyNone},
        {PyNone, JStr(<<>>), JStr(<<" ","B","U","G">>)},
        {PyNone, JStr(<<>>), JStr(s_a)},
        {NoFields,
         Fields(DictSet(DictSet(DictSet(EmptyDict, "assignee_id", JInt(9)),
                                "issue_type_id", JInt(9)), "priority", JStr(s_x)))})

LinkArgs == [testcase_keys : KeyLists, issue_keys : KeyLists]

\* sections: A is a root, b and B are its children
SectionObj(id, name, parent_id) ==
    LET d0 == DictSet(DictSet(EmptyDict, "id", id), "name", name)
    IN  Obj(IF parent_id # PyNone THEN DictSet(d0, "parent_id", parent_id) ELSE d0)

SectionListings ==
    {<<>>,
     <<SectionObj(JInt(1), JStr(<<"A">>), PyNone), NotObj>>,
     <<SectionObj(JInt(1), JStr(<<"A">>), PyNone)>>,
     <<SectionObj(JInt(1), JStr(<<"A">>), PyNone),
       SectionObj(JInt(2), JStr(<<"b">>), JInt(1)),
       SectionObj(JInt(3), JStr(<<"B"," ">>), JInt(1))>>}

SectionsResponses ==
    FailedResponses \cup {Ok(NotListBody)} \cup {Ok(ListBody(l)) : l \in SectionListings}

p_A == <<"A">>

p_A_b == <<"A"," ",">"," ","b">>

TestRunArgs ==
    [test_case_keys : KeyLists,
     section_hierarchy_paths :
        {NoList, GivenList(<<>>), GivenList(<<<<>>>>), GivenList(<<p_A_b>>),
         GivenList(<<<<" ">>, p_A>>), GivenList(<<p_A, p_A_b>>)},
     section_subtree_ids : {NoList, GivenList(<<JInt(7), JStr(<<"8">>)>>)},
     section_ids : {NoList},
     filter_rule : {NoList}]

TestcasesResponses ==
    FailedResponses \cup {Ok(NotListBody), Ok(ListBody(<<>>)), Ok(ListBody(<<Obj(EmptyDict)>>))}

\* the arguments of the tools that issue one request
CreateProjectArgs == [name : {JStr(s_a)}, description : {PyNone, JStr(s_b)}]

ProjectArgs == [project_identifier : {Key(1), Key(2)}]

TaskArgs == [key : {Key(1), Key(2)}]

NoArgs == {<<>>}

SearchUsersArgs == [search_text : {s_a, <<>>}]

TestcaseArgs == [test_case_key : {Key(1), Key(2)}]

IssueTypeByNameArgs == [issue_type_name : {s_bug, <<" ","T","A","S","K">>}]

\* fr_get_issue_type_by_name reads the listing itself as the body
IssueTypeByNameResponses ==
    FailedResponses \cup {Ok(NotListBody)} \cup {Ok(ListBody(l)) : l \in IssueTypeListings}

BySectionArgs == [section_name : {<<"a">>, <<" ","B">>}]

(***************************************************************************)
(* Invocations on one event loop.  The variables tool .. result are the    *)
(* frame of the invocation that runs; the frames of the others are parked  *)
(* in loop.  Control passes from one coroutine to another only where the   *)
(* running one awaits a response, has returned, or has not started: these  *)
(* are the states between two actions.  The module-level values            *)
(* FRESHRELEASE_DOMAIN and FRESHRELEASE_API_KEY belong to no frame.        *)
(***************************************************************************)
Invocations == {"a", "b", "c"}

\* the local state of the running invocation
Frame ==
    [tool |-> tool, pc |-> pc, args |-> args, payload |-> payload, locals |-> locals,
     requests |-> requests, responses |-> responses, result |-> result]

\* an invocation that has not been called yet
IdleFrame ==
    [tool |-> "idle", pc |-> "idle", args |-> <<>>, payload |-> EmptyDict, locals |-> <<>>,
     requests |-> <<>>, responses |-> <<>>, result |-> Pending]

\* alone: the invocations that returned before any other was called
InitLoop ==
    [running |-> "a", parked |-> [i \in Invocations |-> IdleFrame], alone |-> {}]

\* the running invocation has returned and no other was called so far
RanAlone ==
    /\ pc = "done"
    /\ \A k \in Invocations \ {loop.running} : loop.parked[k].tool = "idle"

\* the loop after the running invocation is parked and i is taken up
Parked(i) ==
    [running |-> i,
     parked |-> [loop.parked EXCEPT ![loop.running] = Frame, ![i] = IdleFrame],
     alone |-> loop.alone \cup (IF RanAlone THEN {loop.running} ELSE {})]

\* a switch after which the resumed invocation finds the test-case ids the
\* suspended one resolved, as if they were kept in module-level state
Switch_SharedResolvedIds(i) ==
    /\ i # loop.running
    /\ loop' = Parked(i)
    /\ tool' = loop.parked[i].tool
    /\ pc' = loop.parked[i].pc
    /\ args' = loop.parked[i].args
    /\ payload' = loop.parked[i].payload
    /\ locals' =
          IF requests # <<>> /\ loop.parked[i].requests # <<>>
          THEN [loop.parked[i].locals EXCEPT
                   !.resolved_test_case_ids = locals.resolved_test_case_ids]
          ELSE loop.parked[i].locals
    /\ requests' = loop.parked[i].requests
    /\ responses' = loop.parked[i].responses
    /\ result' = loop.parked[i].result
    /\ UNCHANGED <<FRESHRELEASE_DOMAIN, FRESHRELEASE_API_KEY>>

\* the event loop suspends the running coroutine and resumes or starts i
Switch(i) ==
    /\ i # loop.running
    /\ loop' = Parked(i)
    /\ tool' = loop.parked[i].tool
    /\ pc' = loop.parked[i].pc
    /\ args' = loop.parked[i].args
    /\ payload' = loop.parked[i].payload
    /\ locals' = loop.parked[i].locals
    /\ requests' = loop.parked[i].requests
    /\ responses' = loop.parked[i].responses
    /\ result' = loop.parked[i].result
    /\ UNCHANGED <<FRESHRELEASE_DOMAIN, FRESHRELEASE_API_KEY>>

(***************************************************************************)
(* The specification: one invocation of any tool.                          *)
(***************************************************************************)
Init ==
    /\ FRESHRELEASE_DOMAIN \in BOOLEAN
    /\ FRESHRELEASE_API_KEY \in BOOLEAN
    /\ tool = "idle"
    /\ pc = "idle"
    /\ args = <<>>
    /\ payload = EmptyDict
    /\ locals = <<>>
    /\ requests = <<>>
    /\ responses = <<>>
    /\ result = Pending
    /\ loop = InitLoop

Next ==
    \/ \E a \in CreateTaskArgs : fr_create_task(a)
    \/ \E r \in IssueTypesResponses : CreateTask_IssueTypes(r)
    \/ \E r \in UsersResponses : CreateTask_Users(r)
    \/ \E r \in PlainResponses : CreateTask_Post(r)
    \/ \E a \in LinkArgs : fr_link_testcase_issues(a)
    \/ \E r \in KeyResponses : Link_Testcase(r)
    \/ \E r \in KeyResponses : Link_Issue(r)
    \/ \E r \in PlainResponses : Link_Put(r)
    \/ \E a \in TestRunArgs : fr_add_testcases_to_testrun(a)
    \/ \E r \in KeyResponses : TestRun_Testcase(r)
    \/ \E r \in SectionsResponses : TestRun_Sections(r)
    \/ \E r \in PlainResponses : TestRun_Put(r)
    \/ \E a \in CreateProjectArgs : fr_create_project(a)
    \/ \E a \in ProjectArgs : fr_get_project(a)
    \/ \E a \in TaskArgs : fr_get_task(a)
    \/ \E a \in NoArgs : fr_get_all_tasks(a)
    \/ \E a \in SearchUsersArgs : fr_search_users(a)
    \/ \E a \in NoArgs : fr_list_testcases(a)
    \/ \E a \in TestcaseArgs : fr_get_testcase(a)
    \/ \E r \in PlainResponses : SingleRequest_Response(r)
    \/ \E a \in IssueTypeByNameArgs : fr_get_issue_type_by_name(a)
    \/ \E r \in IssueTypeByNameResponses : IssueTypeByName_Response(r)
    \/ \E a \in BySectionArgs : fr_get_testcases_by_section(a)
    \/ \E r \in SectionsResponses : BySection_Sections(r)
    \/ \E r \in TestcasesResponses : BySection_Testcases(r)

Spec == Init /\ [][Next]_vars

(***************************************************************************)
(* fr_create_task over every combination of explicit arguments and         *)
(* additional_fields.                                                      *)
(***************************************************************************)
s_af == <<"a","f">>

\* an additional_fields dict over the keys ks: one value for the protected
\* names, which no explicit argument and no response carries, and a number
\* for priority
FieldsOver(ks) == [k \in ks |-> IF k = "priority" THEN JInt(3) ELSE JStr(s_af)]

PayloadFields ==
    {NoFields, Fields(EmptyDict)}
    \cup {Fields(FieldsOver(ks \cup {"priority"})) :
            ks \in SUBSET {"title", "description", "assignee_id", "status", "due_date",
                           "issue_type_id"}}
    \cup {Fields(FieldsOver({"status", "labels"}))}

TASK_STATUS_TODO == [t |-> "enum", n |-> 0, s |-> <<"t","o","d","o">>]

PayloadArgs ==
    CreateTaskArgsOf({PyNone, JStr(<<"d">>)}, {PyNone, JInt(7)},
        {PyNone, JStr(<<"o","p","e","n">>), TASK_STATUS_TODO}, {PyNone, JStr(<<"d","d">>)},
        {PyNone}, {PyNone, JStr(s_a)}, PayloadFields)

PayloadIssueTypesResponses ==
    {StatusError(TRUE),
     Ok(IssueTypes(TRUE, TRUE, <<Named(JStr(s_task), JInt(1))>>))}

PayloadUsersResponses ==
    {TransportFault, Ok(ListBody(<<User(JInt(3), PyNone, JStr(s_a))>>))}

\* the create request succeeds
CreatedResponses == {Ok(Obj(EmptyDict))}

NextPayload ==
    \/ \E a \in PayloadArgs : fr_create_task(a)
    \/ \E r \in PayloadIssueTypesResponses : CreateTask_IssueTypes(r)
    \/ \E r \in PayloadUsersResponses : CreateTask_Users(r)
    \/ \E r \in CreatedResponses : CreateTask_Post(r)

SpecPayload == Init /\ [][NextPayload]_vars

(***************************************************************************)
(* fr_create_task over the user search results.                            *)
(***************************************************************************)
\* the users of a search result, each with or without id, email and name
UserShapes ==
    {NotObj} \cup
    {User(id, email, name) :
        id \in {PyNone, JInt(0)},
        email \in {PyNone, JStr(s_A_), JStr(s_b)},
        name \in {PyNone, JStr(s_a), JStr(s_b)}}

\* the i-th user that has an id has the id i
NumberIds(l) ==
    [i \in DOMAIN l |->
        IF l[i].isdict /\ "id" \in DOMAIN l[i].d THEN Obj(DictSet(l[i].d, "id", JInt(i)))
        ELSE l[i]]

SearchResults == {ListBody(NumberIds(l)) : l \in SeqsUpTo(UserShapes, MaxUsers)}

SearchArgs ==
    CreateTaskArgsOf({PyNone}, {PyNone}, {PyNone}, {PyNone}, {PyNone},
        {JStr(s_a), JStr(s__B), JStr(<<" ">>)}, {NoFields})

\* the issue type "task" resolves
SearchIssueTypesResponses == {Ok(IssueTypes(TRUE, TRUE, <<Named(JStr(s_task), JInt(1))>>))}

SearchUsersResponses ==
    {StatusError(TRUE), Ok(NotListBody)} \cup {Ok(b) : b \in SearchResults}

NextSearch ==
    \/ \E a \in SearchArgs : fr_create_task(a)
    \/ \E r \in SearchIssueTypesResponses : CreateTask_IssueTypes(r)
    \/ \E r \in SearchUsersResponses : CreateTask_Users(r)
    \/ \E r \in CreatedResponses : CreateTask_Post(r)

SpecSearch == Init /\ [][NextSearch]_vars

(***************************************************************************)
(* fr_add_testcases_to_testrun over the section forests: one hierarchy     *)
(* path, no test-case key.                                                 *)
(***************************************************************************)
MaxSections == 3     \* the most sections of a generated listing

\* sections with an id, a name and a parent: ids may repeat and a parent_id
\* may name the section itself or a section that descends from it
SectionShapes ==
    {SectionObj(JInt(1), JStr(name), PyNone) : name \in {<<"A">>, <<"b", " ">>}}
    \cup
    {SectionObj(JInt(id), JStr(name), JInt(parent_id)) :
        id \in {1, 2}, name \in {<<"A">>, <<"b", " ">>}, parent_id \in {1, 2}}

\* A, two sections B under it, a section C under each B
SiblingForest ==
    <<SectionObj(JInt(1), JStr(<<"A">>), PyNone),
      SectionObj(JInt(2), JStr(<<"B">>), JInt(1)),
      SectionObj(JInt(3), JStr(<<"B">>), JInt(1)),
      SectionObj(JInt(4), JStr(<<"C">>), JInt(2)),
      SectionObj(JInt(5), JStr(<<"C">>), JInt(3))>>

Forests == SeqsUpTo(SectionShapes, MaxSections) \cup {SiblingForest}

ForestPaths ==
    {<<"A">>, <<"a", " ", ">", " ", "B", " ", ">", " ", "a">>,
     <<"A", ">", "b", ">", "A", ">", "b">>,
     <<"A", " ", ">", " ", "B", " ", ">", " ", "C">>}

ForestArgs ==
    [test_case_keys : {<<>>},
     section_hierarchy_paths : {GivenList(<<p>>) : p \in ForestPaths},
     section_subtree_ids : {NoList},
     section_ids : {NoList},
     filter_rule : {NoList}]

ForestResponses == {Ok(ListBody(l)) : l \in Forests}

\* a response to GET sections arrives only while the invocation awaits one
NextForest ==
    \/ \E a \in ForestArgs : fr_add_testcases_to_testrun(a)
    \/ \E r \in (IF pc = "testrun_sections" THEN ForestResponses ELSE {}) :
          TestRun_Sections(r)
    \/ \E r \in CreatedResponses : TestRun_Put(r)

SpecForest == Init /\ [][NextForest]_vars

(***************************************************************************)
(* fr_add_testcases_to_testrun over section listings where an id or a      *)
(* parent_id is a number or the same number as text.                       *)
(***************************************************************************)
MaxTextIdSections == 2     \* the most sections of a listing with text ids

TextIdShapes ==
    {SectionObj(id, JStr(name), parent_id) :
        id \in {JInt(1), JStr(<<"1">>)}, name \in {<<"A">>, <<"b", " ">>},
        parent_id \in {PyNone, JInt(1), JStr(<<"1">>)}}

\* a root A with a number as id, a root A with text as id, an A below the first
MixedIdForest ==
    <<SectionObj(JInt(1), JStr(<<"A">>), PyNone),
      SectionObj(JStr(<<"2">>), JStr(<<"A">>), PyNone),
      SectionObj(JInt(3), JStr(<<"A">>), JInt(1))>>

SectionIdForests ==
    Forests \cup SeqsUpTo(TextIdShapes, MaxTextIdSections) \cup {MixedIdForest}

\* the paths of ForestPaths and "A>b"
SectionIdPaths == ForestPaths \cup {<<"A", ">", "b">>}

SectionIdArgs ==
    [test_case_keys : {<<>>},
     section_hierarchy_paths : {GivenList(<<p>>) : p \in SectionIdPaths},
     section_subtree_ids : {NoList},
     section_ids : {NoList},
     filter_rule : {NoList}]

SectionIdResponses == {Ok(ListBody(l)) : l \in SectionIdForests}

\* a response to GET sections arrives only while the invocation awaits one
NextSectionIds ==
    \/ \E a \in SectionIdArgs : fr_add_testcases_to_testrun(a)
    \/ \E r \in (IF pc = "testrun_sections" THEN SectionIdResponses ELSE {}) :
          TestRun_Sections(r)
    \/ \E r \in CreatedResponses : TestRun_Put(r)

SpecSectionIds == Init /\ [][NextSectionIds]_vars

(***************************************************************************)
(* fr_get_testcases_by_section over listings whose sections carry a        *)
(* number, text or null as id.                                             *)
(***************************************************************************)
NamedShapes ==
    {SectionObj(id, JStr(name), PyNone) :
        id \in {JInt(1), JInt(2), JStr(<<"2">>), PyNone}, name \in {<<"A">>, <<"b", " ">>}}

BySectionListings ==
    {Ok(ListBody(l)) : l \in SeqsUpTo(NamedShapes, MaxSections)}

BySectionSectionsResponses == SectionsResponses \cup BySectionListings

\* a response to GET sections arrives only while the invocation awaits one
NextBySection ==
    \/ \E a \in BySectionArgs : fr_get_testcases_by_section(a)
    \/ \E r \in (IF pc = "by_section_sections" THEN BySectionSectionsResponses ELSE {}) :
          BySection_Sections(r)
    \/ \E r \in TestcasesResponses : BySection_Testcases(r)

SpecBySection == Init /\ [][NextBySection]_vars

(***************************************************************************)
(* Three invocations of fr_add_testcases_to_testrun on one event loop,     *)
(* interleaved at their awaits in every order.                             *)
(***************************************************************************)
ConcurrentArgs ==
    [test_case_keys : {<<Key(1)>>},
     section_hierarchy_paths : {NoList, GivenList(<<p_A>>)},
     section_subtree_ids : {NoList},
     section_ids : {NoList},
     filter_rule : {NoList}]

ConcurrentKeyResponses ==
    {StatusError(TRUE),
     Ok(Obj(DictSet(EmptyDict, "id", JInt(1)))), Ok(Obj(DictSet(EmptyDict, "id", JInt(2))))}

ConcurrentSectionsResponses ==
    {Ok(ListBody(<<SectionObj(JInt(3), JStr(<<"A">>), PyNone)>>)),
     Ok(ListBody(<<SectionObj(JInt(4), JStr(<<"A">>), PyNone)>>))}

NextConcurrent ==
    \/ \E i \in Invocations : Switch(i)
    \/ \E a \in ConcurrentArgs : fr_add_testcases_to_testrun(a)
    \/ \E r \in ConcurrentKeyResponses : TestRun_Testcase(r)
    \/ \E r \in ConcurrentSectionsResponses : TestRun_Sections(r)
    \/ \E r \in CreatedResponses : TestRun_Put(r)

SpecConcurrent == Init /\ [][NextConcurrent]_vars

(***************************************************************************)
(* fr_add_testcases_to_testrun over its optional lists: several hierarchy  *)
(* paths, section_subtree_ids, section_ids and filter_rule given or not.   *)
(***************************************************************************)
MaxPaths == 2     \* the most hierarchy paths of a call

\* "", " ", ">A", "A", "A > b"
RunPaths ==
    {<<>>, <<" ">>, <<">", "A">>, <<"A">>, <<"A", " ", ">", " ", "b">>}

RunArgs ==
    [test_case_keys : {<<>>, <<Key(1)>>},
     section_hierarchy_paths :
        {NoList} \cup {GivenList(q) : q \in SeqsUpTo(RunPaths, MaxPaths)},
     section_subtree_ids : {NoList, GivenList(<<JInt(2), JStr(<<"8">>)>>)},
     section_ids : {NoList, GivenList(<<JInt(7), JStr(s_x), JInt(7)>>)},
     filter_rule : {NoList, GivenList(<<JStr(s_x), JInt(1)>>)}]

RunKeyResponses == {TransportFault, Ok(Obj(DictSet(EmptyDict, "id", JInt(1))))}

\* a failure, no section, and A with b and B under it
RunSectionsResponses ==
    {StatusError(TRUE), Ok(ListBody(<<>>)),
     Ok(ListBody(<<SectionObj(JInt(1), JStr(<<"A">>), PyNone),
                   SectionObj(JInt(2), JStr(<<"b">>), JInt(1)),
                   SectionObj(JInt(3), JStr(<<"B", " ">>), JInt(1))>>))}

NextTestRun ==
    \/ \E a \in RunArgs : fr_add_testcases_to_testrun(a)
    \/ \E r \in RunKeyResponses : TestRun_Testcase(r)
    \/ \E r \in RunSectionsResponses : TestRun_Sections(r)
    \/ \E r \in PlainResponses : TestRun_Put(r)

SpecTestRun == Init /\ [][NextTestRun]_vars

(***************************************************************************)
(* parse_link_header, lines 22-53.  The header is text; the two regular    *)
(* expressions are computed on its characters.                             *)
(***************************************************************************)
s_next == <<"n","e","x","t">>

s_prev == <<"p","r","e","v">>

s_page == <<"p","a","g","e">>

\* the text s has the literal lit at position i
StartsAt(s, i, lit) ==
    i >= 1 /\ i + Len(lit) - 1 <= Len(s) /\ SubSeq(s, i, i + Len(lit) - 1) = lit

\* \s* from position i: the position after the run of whitespace
RECURSIVE SkipSpace(_, _)
SkipSpace(s, i) == IF i <= Len(s) /\ IsSpace(s[i]) THEN SkipSpace(s, i + 1) ELSE i

\* "." matches every character but the newline
Dots(s, from, to) == \A k \in from..to : s[k] # "\n"

\* (.+?)" from position q: where the second group may end
RelEnds(s, q) == {e \in q..(Len(s) - 1) : s[e + 1] = "\"" /\ Dots(s, q, e)}

\* where rel=" ends after the first group ending at j
RelStart(s, j) == SkipSpace(s, j + 3) + 5

\* <(.+?)>;\s*rel="(.+?)" with "<" at position i: where the first group may end
UrlEnds(s, i) ==
    {j \in (i + 1)..Len(s) :
        /\ Dots(s, i + 1, j)
        /\ StartsAt(s, j + 1, <<">", ";">>)
        /\ StartsAt(s, SkipSpace(s, j + 3), <<"r","e","l","=","\"">>)
        /\ RelEnds(s, RelStart(s, j)) # {}}

\* the positions where re.search (line 44) can match
LinkStarts(s) == {i \in DOMAIN s : s[i] = "<" /\ UrlEnds(s, i) # {}}

NoMatch == [matched |-> FALSE, url |-> <<>>, rel |-> <<>>]

\* line 44: the leftmost match, both groups as short as they can be
LinkMatch(link) ==
    IF LinkStarts(link) = {} THEN NoMatch
    ELSE LET i == MinOf(LinkStarts(link))
             j == MinOf(UrlEnds(link, i))
             q == RelStart(link, j)
             e == MinOf(RelEnds(link, q))
         IN  [matched |-> TRUE, url |-> SubSeq(link, i + 1, j), rel |-> SubSeq(link, q, e)]

\* (\d+) from position i: the position after the run of digits
RECURSIVE SkipDigits(_, _)
SkipDigits(s, i) == IF i <= Len(s) /\ IsDigit(s[i]) THEN SkipDigits(s, i + 1) ELSE i

\* the positions where page=(\d+) can match (line 48)
PageStarts(url) ==
    {k \in DOMAIN url :
        StartsAt(url, k, Append(s_page, "=")) /\ SkipDigits(url, k + 5) > k + 5}

\* lines 48-50: int() of the digits of the leftmost match
PageNum(url) ==
    LET k == MinOf(PageStarts(url))
    IN  ParseDigits(SubSeq(url, k + 5, SkipDigits(url, k + 5) - 1), 0)

\* lines 30-33
NoPagination == [rel \in {s_next, s_prev} |-> PyNone]

\* lines 44-51, one link
LinkStep(pagination, link) ==
    LET match == LinkMatch(link)
    IN  IF match.matched /\ PageStarts(match.url) # {}
        THEN [rel \in DOMAIN pagination \cup {match.rel} |->
                IF rel = match.rel THEN JInt(PageNum(match.url)) ELSE pagination[rel]]
        ELSE pagination

\* line 42
RECURSIVE ParseLinks(_, _, _)
ParseLinks(links, k, pagination) ==
    IF k > Len(links) THEN pagination
    ELSE ParseLinks(links, k + 1, LinkStep(pagination, links[k]))

parse_link_header(link_header) ==
    IF link_header = <<>> THEN NoPagination
    ELSE ParseLinks(SplitOn(link_header, ",", <<>>), 1, NoPagination)

\* one call of the function
ParseLinkHeader_Call(link_header) ==
    /\ tool = "idle"
    /\ tool' = "parse_link_header"
    /\ args' = link_header
    /\ Finish(ReturnValue(parse_link_header(link_header)))
    /\ UNCHANGED <<FRESHRELEASE_DOMAIN, FRESHRELEASE_API_KEY, loop, payload, locals, responses>>

(***************************************************************************)
(* parse_link_header over headers of up to MaxLinks segments               *)
(* <url>; rel="name".  A url is a path and its query parameters.           *)
(***************************************************************************)
MaxLinks == 2     \* the most segments of a header

Param(name, value) == [name |-> name, value |-> value]

\* no query; page=2; page=12; per_page=3&page=2; ids=1,2&page=2
LinkQueries ==
    {<<>>,
     <<Param(s_page, <<"2">>)>>,
     <<Param(s_page, <<"1", "2">>)>>,
     <<Param(<<"p","e","r","_","p","a","g","e">>, <<"3">>), Param(s_page, <<"2">>)>>,
     <<Param(<<"i","d","s">>, <<"1", ",", "2">>), Param(s_page, <<"2">>)>>}

LinkRels == {s_next, s_prev, <<"l","a","s","t">>}

LinkSegments == [query : LinkQueries, rel : LinkRels]

\* the segments of a header and what stands after each comma
LinkInputs == [segments : SeqsUpTo(LinkSegments, MaxLinks), gap : {<<>>, <<" ">>}]

RECURSIVE QueryText(_, _)
QueryText(query, k) ==
    IF k > Len(query) THEN <<>>
    ELSE (IF k = 1 THEN <<"?">> ELSE <<"&">>)
         \o query[k].name \o <<"=">> \o query[k].value \o QueryText(query, k + 1)

UrlText(query) == <<"u">> \o QueryText(query, 1)

SegmentText(seg) ==
    <<"<">> \o UrlText(seg.query) \o <<">", ";", " ", "r","e","l","=","\"">>
    \o seg.rel \o <<"\"">>

RECURSIVE HeaderText(_, _)
HeaderText(x, k) ==
    IF k > Len(x.segments) THEN <<>>
    ELSE (IF k = 1 THEN <<>> ELSE <<",">> \o x.gap)
         \o SegmentText(x.segments[k]) \o HeaderText(x, k + 1)

\* every header with the segments it was written from
LinkHeadersWritten == {<<HeaderText(x, 1), x.segments>> : x \in LinkInputs}

\* headers with a segment that is not <url>; rel="name": no rel, no "<",
\* no quotes, no url, and text that is only separators
MalformedHeaders ==
    {<<"<","u","?","p","a","g","e","=","2",">">>,
     <<"u","?","p","a","g","e","=","2",">",";"," ","r","e","l","=","\"","n","e","x","t","\"">>,
     <<"<","u","?","p","a","g","e","=","2",">",";"," ","r","e","l","=","n","e","x","t">>,
     <<"<",">",";"," ","r","e","l","=","\"","p","r","e","v","\"">>,
     <<",">>, <<" ">>, <<"\n">>}

LinkHeaders == {w[1] : w \in LinkHeadersWritten} \cup MalformedHeaders

NextLinkHeader == \E h \in LinkHeaders : ParseLinkHeader_Call(h)

SpecLinkHeader == Init /\ [][NextLinkHeader]_vars

(***************************************************************************)
(* Properties.  They read the requests issued and the responses received   *)
(* by the invocation: the i-th response answers the i-th request.          *)
(***************************************************************************)
NoRequestOf(method) == \A i \in DOMAIN requests : requests[i].method # method

\* the issue-type resolution that got response r succeeded
IssueTypeResolved(r) ==
    /\ ~Failed(r)
    /\ ~MatchIssueType(r.body, NameToResolve(args)).raised
    /\ MatchIssueType(r.body, NameToResolve(args)).id # PyNone

\* the user resolution that got response r succeeded
UserResolved(r) ==
    /\ ~Failed(r)
    /\ ~ResolveUser(r.body, args.user.s).raised
    /\ ResolveUser(r.body, args.user.s).id # PyNone

\* user is given and no assignee id is
UserResolutionRequired ==
    args.assignee_id = PyNone /\ args.user # PyNone /\ args.user.s # <<>>

\* C1: in fr_create_task the POST to /{project}/issues is issued only after
\* the issue-type resolution has succeeded and, when user resolution is
\* required (user given, no assignee id), after it has succeeded too; when
\* either resolution fails no POST is issued in the invocation.
C1_PostOnlyAfterResolution ==
    tool = "fr_create_task" =>
        /\ \A i \in DOMAIN requests : requests[i].method = "POST" =>
              /\ requests[i].path = "/{project}/issues"
              /\ i >= 2
              /\ requests[1].path = "/{project}/project_issue_types"
              /\ IssueTypeResolved(responses[1])
              /\ UserResolutionRequired =>
                    /\ i = 3
                    /\ requests[2].path = "/{project}/users"
                    /\ UserResolved(responses[2])
        /\ (Len(responses) >= 1 /\ ~IssueTypeResolved(responses[1])) => NoRequestOf("POST")
        /\ (UserResolutionRequired /\ Len(responses) >= 2 /\ ~UserResolved(responses[2]))
              => NoRequestOf("POST")

\* C1: user resolution was required and the POST went out as the third
\* request, after both resolutions
C1_Witness ==
    /\ tool = "fr_create_task"
    /\ Len(requests) = 3
    /\ requests[3].method = "POST"
    /\ UserResolutionRequired

\* the lookup that got response r for a test-case key of the test run failed
TestRunKeyFailed(r) == Failed(r) \/ ~r.body.isdict \/ "id" \notin DOMAIN r.body.d

\* the sections request of a hierarchy path that got response r failed
TestRunPathFailed(r) ==
    Failed(r) \/ ~r.body.islist \/ \E i \in DOMAIN r.body.items : ~r.body.items[i].isdict

\* C2: in fr_add_testcases_to_testrun, when resolving a test-case key or a
\* hierarchy path fails, the operation returns that failure (an error
\* result) and no PUT is issued in the invocation.
C2_FailureReturnedNoPut ==
    tool = "fr_add_testcases_to_testrun" =>
        \A j \in DOMAIN responses :
            (\/ requests[j].path = "/{project}/test_cases/{key}" /\ TestRunKeyFailed(responses[j])
             \/ requests[j].path = "/{project}/sections" /\ TestRunPathFailed(responses[j]))
            => /\ result.kind = "return"
               /\ result.error # ""
               /\ NoRequestOf("PUT")

\* the lookup that got response r gave an id
KeyResolved(r) ==
    /\ ~Failed(r)
    /\ r.body.isdict
    /\ "id" \in DOMAIN r.body.d
    /\ ~IntRaises(r.body.d["id"])

\* the ids the responses first..last gave, in order
IdsOfResponses(first, last) ==
    [j \in 1..(last - first + 1) |-> IntOf(responses[first + j - 1].body.d["id"])]

\* C3: in fr_link_testcase_issues the PUT to update_many is issued only
\* after every test-case key and every issue key resolved to an id; a lookup
\* that fails or answers without an id means no PUT; the PUT carries the
\* resolved test-case ids as ids and the resolved issue ids as issue_ids.
C3_PutAfterAllKeysResolved ==
    tool = "fr_link_testcase_issues" =>
        LET nt == Len(args.testcase_keys)
            ni == Len(args.issue_keys)
        IN  /\ \A i \in DOMAIN requests : requests[i].method = "PUT" =>
                  /\ requests[i].path = "/{project}/test_cases/update_many"
                  /\ i = nt + ni + 1
                  /\ \A j \in 1..(i - 1) : KeyResolved(responses[j])
                  /\ requests[i].body =
                        [ids |-> IdsOfResponses(1, nt),
                         test_case |-> [issue_ids |-> IdsOfResponses(nt + 1, nt + ni)]]
            /\ (\E j \in DOMAIN responses :
                    requests[j].method = "GET" /\ ~KeyResolved(responses[j]))
                  => NoRequestOf("PUT")

\* C3: a PUT went out for two test-case keys and two issue keys
C3_Witness ==
    /\ tool = "fr_link_testcase_issues"
    /\ Len(args.testcase_keys) = 2 /\ Len(args.issue_keys) = 2
    /\ Len(requests) = 5
    /\ requests[5].method = "PUT"
    /\ requests[5].body.ids[1] # requests[5].body.ids[2]

\* C4: the batch resolver issues one GET per key in input order; when all
\* keys resolve the i-th id of the output is the id returned for the i-th
\* key; the first key that fails ends the batch: no GET for a later key, and
\* the ids resolved for the earlier keys are in nothing that is returned.
C4_BatchInOrderFailFast ==
    tool = "fr_link_testcase_issues" =>
        LET nt == Len(args.testcase_keys)
            ni == Len(args.issue_keys)
        IN  /\ Len(requests) <= nt + ni + 1
            /\ \A i \in DOMAIN requests :
                  /\ i <= nt =>
                        requests[i] = Request("GET", "/{project}/test_cases/{key}",
                                              StrOf(args.testcase_keys[i]), NoBody)
                  /\ (nt < i /\ i <= nt + ni) =>
                        requests[i] = Request("GET", "/{project}/issues/{key}",
                                              StrOf(args.issue_keys[i - nt]), NoBody)
            /\ Len(requests) = nt + ni + 1 =>
                  /\ Len(requests[nt + ni + 1].body.ids) = nt
                  /\ Len(requests[nt + ni + 1].body.test_case.issue_ids) = ni
                  /\ \A k \in 1..nt :
                        requests[nt + ni + 1].body.ids[k] = IntOf(responses[k].body.d["id"])
                  /\ \A k \in 1..ni :
                        requests[nt + ni + 1].body.test_case.issue_ids[k]
                            = IntOf(responses[nt + k].body.d["id"])
            /\ \A j \in DOMAIN responses : (j <= nt + ni /\ ~KeyResolved(responses[j])) =>
                  /\ pc = "done"
                  /\ Len(requests) = j
                  /\ result.kind = "raise" \/ result.error # ""
                  /\ (result.details.has /\ ~result.details.none)
                        => (~Failed(responses[j]) \/ responses[j].kind = "status")
                           /\ result.details.val = responses[j].body

\* C4: the second issue key failed after three keys had resolved
C4_Witness ==
    /\ tool = "fr_link_testcase_issues"
    /\ Len(args.testcase_keys) = 2 /\ Len(args.issue_keys) = 2
    /\ Len(responses) = 4
    /\ KeyResolved(responses[3])
    /\ ~KeyResolved(responses[4])
    /\ pc = "done"

\* C5: whatever the tool, when the API domain or the API key is absent the
\* invocation returns the configuration failure and issues no request.
C5_ConfigMissingNoRequest ==
    (tool # "idle" /\ (~FRESHRELEASE_DOMAIN \/ ~FRESHRELEASE_API_KEY)) =>
        /\ pc = "done"
        /\ result.kind = "return"
        /\ result.error = "FRESHRELEASE_DOMAIN or FRESHRELEASE_API_KEY is not set"
        /\ requests = <<>>
        /\ responses = <<>>

\* C5: a tool was called with the domain set and the key missing
C5_Witness ==
    /\ tool = "fr_add_testcases_to_testrun"
    /\ FRESHRELEASE_DOMAIN /\ ~FRESHRELEASE_API_KEY
    /\ pc = "done"
    /\ result.error = "FRESHRELEASE_DOMAIN or FRESHRELEASE_API_KEY is not set"

\* C6: whatever the tool and the remote outcome, the invocation ends with a
\* structured result and never with an unhandled fault; after a non-2xx
\* response the body is the detail only if it parsed as JSON.
C6_AlwaysStructuredResult ==
    pc = "done" =>
        /\ result.kind = "return"
        /\ (responses # <<>> /\ responses[Len(responses)].kind = "status") =>
              /\ result.error # ""
              /\ (result.details.has /\ ~result.details.none)
                    => responses[Len(responses)].json

\* C8: in fr_create_task a caller-supplied assignee_id means no user search
\* is issued, whatever user is, and the POST body carries the caller's
\* value; the user search is issued only when no assignee id is present and
\* user is given.
C8_AssigneeIdNotOverridden ==
    tool = "fr_create_task" =>
        /\ args.assignee_id # PyNone =>
              /\ \A i \in DOMAIN requests : requests[i].path # "/{project}/users"
              /\ \A i \in DOMAIN requests : requests[i].method = "POST" =>
                    /\ "assignee_id" \in DOMAIN requests[i].body
                    /\ requests[i].body["assignee_id"] = args.assignee_id
        /\ (\E i \in DOMAIN requests : requests[i].path = "/{project}/users") =>
              /\ args.assignee_id = PyNone
              /\ args.user # PyNone /\ args.user.s # <<>>

\* C8: the POST went out for a call that gave both assignee_id and user
C8_Witness ==
    /\ tool = "fr_create_task"
    /\ args.assignee_id = JInt(0)
    /\ args.user = JStr(s_a)
    /\ "assignee_id" \in DOMAIN args.additional_fields.d
    /\ requests # <<>>
    /\ requests[Len(requests)].method = "POST"

\* the six names of the body that additional_fields cannot set
CoreFields == {"title", "description", "assignee_id", "status", "due_date", "issue_type_id"}

\* C7: in fr_create_task the values of title, description, assignee_id,
\* status, due_date and issue_type_id in the POST body never come from
\* additional_fields: an explicit argument wins, such a key of
\* additional_fields is dropped even when its argument is absent, and every
\* other key of additional_fields is in the body unchanged.
C7_CoreFieldsNotFromAdditional ==
    tool = "fr_create_task" =>
        \A i \in DOMAIN requests : requests[i].method = "POST" =>
            LET b == requests[i].body
                af == args.additional_fields.d
            IN  /\ "title" \in DOMAIN b /\ b["title"] = args.title
                /\ \A k \in {"description", "due_date"} :
                      IF args[k] # PyNone THEN k \in DOMAIN b /\ b[k] = args[k]
                      ELSE k \notin DOMAIN b
                /\ IF args.status = PyNone THEN "status" \notin DOMAIN b
                   ELSE /\ "status" \in DOMAIN b
                        /\ b["status"].t = "str"
                        /\ b["status"].s = args.status.s
                /\ IF args.assignee_id # PyNone
                   THEN "assignee_id" \in DOMAIN b /\ b["assignee_id"] = args.assignee_id
                   ELSE IF UserResolutionRequired
                   THEN /\ "assignee_id" \in DOMAIN b
                        /\ b["assignee_id"] = ResolveUser(responses[2].body, args.user.s).id
                   ELSE "assignee_id" \notin DOMAIN b
                /\ "issue_type_id" \in DOMAIN b
                /\ b["issue_type_id"]
                      = MatchIssueType(responses[1].body, NameToResolve(args)).id
                /\ \A k \in CoreFields \cap DOMAIN b \cap DOMAIN af : b[k] # af[k]
                /\ \A k \in DOMAIN af \ CoreFields : k \in DOMAIN b /\ b[k] = af[k]
                /\ DOMAIN b \subseteq CoreFields \cup DOMAIN af

\* C7: the POST went out for a call whose additional_fields name all six
\* core fields and priority, with status given and description not
C7_Witness ==
    /\ tool = "fr_create_task"
    /\ requests # <<>>
    /\ requests[Len(requests)].method = "POST"
    /\ CoreFields \cup {"priority"} \subseteq DOMAIN args.additional_fields.d
    /\ args.status = TASK_STATUS_TODO
    /\ args.description = PyNone
    /\ "priority" \in DOMAIN requests[Len(requests)].body

\* the users response of the invocation, once there is one
UsersResponse == responses[2]

HasUsersResponse ==
    tool = "fr_create_task" /\ Len(responses) >= 2 /\ requests[2].path = "/{project}/users"

\* r is a list of user objects
ListOfUsers(r) ==
    /\ ~Failed(r)
    /\ r.body.islist
    /\ \A i \in DOMAIN r.body.items : r.body.items[i].isdict

\* the POST of the invocation carries this assignee id
PostedAssignee(id) ==
    /\ Len(requests) = 3
    /\ requests[3].method = "POST"
    /\ "assignee_id" \in DOMAIN requests[3].body
    /\ requests[3].body["assignee_id"] = id

FieldOrEmpty(item, field) == IF field \in DOMAIN item.d THEN StrOf(item.d[field]) ELSE <<>>

\* the users whose field, trimmed and lower-cased, is not empty and equals
\* the trimmed, lower-cased query
Hits(items, field, query) ==
    {i \in DOMAIN items :
        /\ StripLower(FieldOrEmpty(items[i], field)) # <<>>
        /\ StripLower(FieldOrEmpty(items[i], field)) = StripLower(query)}

First(S) == CHOOSE i \in S : \A j \in S : i <= j

\* the user the three tiers name in strict order: the first email match,
\* else the first name match, else the first element
StrictChoice(items, query) ==
    IF Hits(items, "email", query) # {} THEN First(Hits(items, "email", query))
    ELSE IF Hits(items, "name", query) # {} THEN First(Hits(items, "name", query))
    ELSE 1

\* C9 as stated: for every list of users and every query the user chosen is
\* the first whose email equals the query but for case, else the first
\* whose name does, else the first element; a single email match is chosen
\* whatever the names and the order.
C9_StrictTierChoice ==
    (HasUsersResponse /\ ListOfUsers(UsersResponse) /\ UsersResponse.body.items # <<>>) =>
        LET items == UsersResponse.body.items
            id == DictGet(items[StrictChoice(items, args.user.s)].d, "id")
        IN  /\ id # PyNone => PostedAssignee(id)
            /\ NoRequestOf("POST") \/ PostedAssignee(id)

\* the id of the first user the field matches; None when there is no such
\* user or that user has no id
TierId(items, field, query) ==
    IF Hits(items, field, query) = {} THEN PyNone
    ELSE DictGet(items[First(Hits(items, field, query))].d, "id")

\* the first id there is among: the first email match's, the first name
\* match's, the first element's
ExpectedUserId(items, query) ==
    IF TierId(items, "email", query) # PyNone THEN TierId(items, "email", query)
    ELSE IF TierId(items, "name", query) # PyNone THEN TierId(items, "name", query)
    ELSE DictGet(items[1].d, "id")

\* C9, amended: for every non-empty list of user objects and every query
\* the id chosen is the first there is among the id of the first user whose
\* trimmed, lower-cased email equals the trimmed, lower-cased query, the id
\* of the first user whose name does, and the id of the first element; so a
\* single email match that has an id is chosen whatever the names and the
\* order.
C9_TierChoiceAmongIds ==
    (HasUsersResponse /\ ListOfUsers(UsersResponse) /\ UsersResponse.body.items # <<>>) =>
        LET items == UsersResponse.body.items
            id == ExpectedUserId(items, args.user.s)
            emailHits == Hits(items, "email", args.user.s)
        IN  /\ id # PyNone => PostedAssignee(id)
            /\ NoRequestOf("POST") \/ PostedAssignee(id)
            /\ \A i \in emailHits :
                  (emailHits = {i} /\ DictGet(items[i].d, "id") # PyNone)
                      => PostedAssignee(DictGet(items[i].d, "id"))

\* C9: the second user matches by email, the first by name, and both have
\* an id
C9_Witness ==
    /\ HasUsersResponse /\ ListOfUsers(UsersResponse)
    /\ Len(UsersResponse.body.items) = 2
    /\ args.user.s = s_a
    /\ FieldText(UsersResponse.body.items[1], "name") = s_a
    /\ FieldText(UsersResponse.body.items[1], "email") = s_b
    /\ FieldText(UsersResponse.body.items[2], "email") = s_a
    /\ PostedAssignee(JInt(2))

NotFoundResult == result.kind = "return" /\ result.error = "No users found matching"

\* C10 as stated: NotFound only for the empty list; every non-empty list of
\* users, with or without ids, yields a user id and the create goes on.
C10_NotFoundOnlyWhenEmpty ==
    (HasUsersResponse /\ ListOfUsers(UsersResponse)) =>
        /\ UsersResponse.body.items # <<>> =>
              /\ Len(requests) = 3 /\ requests[3].method = "POST"
              /\ "assignee_id" \in DOMAIN requests[3].body
        /\ NotFoundResult => UsersResponse.body.items = <<>>

\* C10, amended: the resolver returns NotFound when the search result is no
\* list, is empty, or is a list of user objects where none of the first
\* email match, the first name match and the first element has an id; a
\* non-empty list of user objects whose first element has an id always
\* yields a user id and the create goes on.
C10_NotFoundIffNoId ==
    (HasUsersResponse /\ ~Failed(UsersResponse)) =>
        /\ (~UsersResponse.body.islist \/ UsersResponse.body.items = <<>>) =>
              NotFoundResult /\ NoRequestOf("POST")
        /\ (ListOfUsers(UsersResponse) /\ UsersResponse.body.items # <<>>) =>
              LET items == UsersResponse.body.items IN
              /\ NotFoundResult <=> ExpectedUserId(items, args.user.s) = PyNone
              /\ DictGet(items[1].d, "id") # PyNone =>
                    /\ Len(requests) = 3 /\ requests[3].method = "POST"
                    /\ "assignee_id" \in DOMAIN requests[3].body
                    /\ requests[3].body["assignee_id"] # PyNone

\* C10: no user matches the query and the first element's id is taken
C10_Witness ==
    /\ HasUsersResponse /\ ListOfUsers(UsersResponse)
    /\ Len(UsersResponse.body.items) = 2
    /\ args.user.s = <<" ">>
    /\ TierId(UsersResponse.body.items, "email", args.user.s) = PyNone
    /\ TierId(UsersResponse.body.items, "name", args.user.s) = PyNone
    /\ PostedAssignee(JInt(1))

(***************************************************************************)
(* Issue-type resolution by name.                                          *)
(***************************************************************************)
\* the entries whose trimmed, lower-cased name equals the trimmed,
\* lower-cased requested name
NameHits(items, name) ==
    {i \in DOMAIN items : StripLower(FieldOrEmpty(items[i], "name")) = StripLower(name)}

\* the issue-type listing fr_create_task got: an object whose issue_types
\* is a list of objects
CreateTaskListing ==
    /\ tool = "fr_create_task" /\ Len(responses) >= 1
    /\ ~Failed(responses[1])
    /\ responses[1].body.isdict /\ responses[1].body.has /\ responses[1].body.islist
    /\ \A i \in DOMAIN responses[1].body.items : responses[1].body.items[i].isdict

\* the issue-type listing fr_get_issue_type_by_name got: a list of objects
ByNameListing ==
    /\ tool = "fr_get_issue_type_by_name" /\ Len(responses) >= 1
    /\ ~Failed(responses[1])
    /\ responses[1].body.islist
    /\ \A i \in DOMAIN responses[1].body.items : responses[1].body.items[i].isdict

IssueTypeNotFound(listing) ==
    /\ result.kind = "return"
    /\ result.error = "Issue type not found"
    /\ result.details.has /\ ~result.details.none
    /\ result.details.val = listing

\* C11 as stated: when an entry's trimmed, lower-cased name equals the
\* trimmed, lower-cased requested name the resolution yields the first such
\* entry's id (fr_get_issue_type_by_name: that entry); when no entry matches
\* the result is NotFound with the raw listing attached as detail.
C11_FirstMatchOrNotFoundWithListing ==
    /\ CreateTaskListing =>
          LET items == responses[1].body.items
              hits == NameHits(items, NameToResolve(args))
          IN  IF hits # {}
              THEN /\ "issue_type_id" \in DOMAIN payload
                   /\ payload["issue_type_id"] = DictGet(items[First(hits)].d, "id")
              ELSE IssueTypeNotFound(responses[1].body)
    /\ ByNameListing =>
          LET items == responses[1].body.items
              hits == NameHits(items, args.issue_type_name)
          IN  IF hits # {}
              THEN /\ result.kind = "return" /\ result.error = ""
                   /\ result.value = items[First(hits)]
              ELSE IssueTypeNotFound(responses[1].body)

(***************************************************************************)
(* Section hierarchy paths.                                                *)
(***************************************************************************)
\* the sections listing the test run got for its one path, and that path
ForestAnswered ==
    /\ tool = "fr_add_testcases_to_testrun"
    /\ Len(responses) >= 1
    /\ requests[1].path = "/{project}/sections"
    /\ ~Failed(responses[1])
    /\ responses[1].body.islist
    /\ \A i \in DOMAIN responses[1].body.items : responses[1].body.items[i].isdict

ForestItems == responses[1].body.items

\* the segments of the first hierarchy path, trimmed and lower-cased
Segments ==
    LET raw == SplitOn(args.section_hierarchy_paths.items[1], ">", <<>>)
    IN  [k \in DOMAIN raw |-> StripLower(raw[k])]

\* the chains root, child, ..., leaf of the listing whose normalised names
\* are the segments in order, each as the positions of its sections
Chains(items, segments) ==
    {c \in [DOMAIN segments -> DOMAIN items] :
        /\ DictGet(items[c[1]].d, "parent_id") = PyNone
        /\ \A k \in DOMAIN segments :
              StripLower(FieldOrEmpty(items[c[k]], "name")) = segments[k]
        /\ \A k \in DOMAIN segments :
              k > 1 => DictGet(items[c[k]].d, "parent_id") = DictGet(items[c[k - 1]].d, "id")}

\* how often x occurs in the sequence q
Occurrences(q, x) == Cardinality({i \in DOMAIN q : q[i] = x})

\* C12: for every section forest and path the resolver returns the id of
\* every section that ends a chain root, child, ..., leaf whose normalised
\* names equal the path segments in order, once per matching chain; the ids
\* reach the PUT as text.
C12_EveryMatchingBranch ==
    ForestAnswered =>
        /\ Len(requests) = 2 /\ requests[2].method = "PUT"
        /\ LET sent == requests[2].body.section_subtree_ids
               chains == Chains(ForestItems, Segments)
               ends == {StrOf(DictGet(ForestItems[c[Len(Segments)]].d, "id")) : c \in chains}
           IN  /\ \A i \in DOMAIN sent : sent[i] \in ends
               /\ \A x \in ends :
                     Occurrences(sent, x) =
                        Cardinality({c \in chains :
                            StrOf(DictGet(ForestItems[c[Len(Segments)]].d, "id")) = x})

\* C12: A with two sections B, each with a section C, and the path
\* A > B > C: both C are sent
C12_Witness ==
    /\ ForestAnswered
    /\ ForestItems = SiblingForest
    /\ Len(Segments) = 3
    /\ Len(requests) = 2
    /\ requests[2].body.section_subtree_ids = <<<<"4">>, <<"5">>>>

\* C14: for every section listing, also one whose parent_id references form
\* a cycle or point a section at itself, the resolver returns (the
\* invocation goes on to its PUT) and its calls never nest deeper than the
\* number of path segments.
C14_DepthBoundedByPath ==
    ForestAnswered =>
        /\ Len(requests) = 2 /\ requests[2].method = "PUT"
        /\ RecursionDepth(ForestItems, RootSections(ForestItems),
                          PathParts(args.section_hierarchy_paths.items[1]))
              <= Len(Segments)

\* the section at position i descends from itself through parent_id
OnCycle(items, i) ==
    \E j \in DOMAIN items :
        /\ DictGet(items[i].d, "parent_id") = DictGet(items[j].d, "id")
        /\ DictGet(items[j].d, "parent_id") = DictGet(items[i].d, "id")

\* C14: a listing with a cycle that the four segments of the path go round
C14_Witness ==
    /\ ForestAnswered
    /\ Len(requests) = 2
    /\ Len(Segments) = 4
    /\ \E i \in DOMAIN ForestItems : OnCycle(ForestItems, i)
    /\ RecursionDepth(ForestItems, RootSections(ForestItems),
                      PathParts(args.section_hierarchy_paths.items[1])) = 4
    /\ requests[2].body.section_subtree_ids # <<>>

(***************************************************************************)
(* The PUT body of fr_add_testcases_to_testrun.                            *)
(***************************************************************************)
TestRunPutSent ==
    /\ tool = "fr_add_testcases_to_testrun"
    /\ requests # <<>>
    /\ requests[Len(requests)].method = "PUT"

PutBody == requests[Len(requests)].body

GivenPaths == OrEmpty(args.section_hierarchy_paths)

\* everything before the first '>' of the path is white space
FirstSegmentEmpty(path) ==
    \A i \in DOMAIN path :
        (\A j \in 1..(i - 1) : path[j] # ">") => (path[i] = ">" \/ IsSpace(path[i]))

SectionsRequests == {i \in DOMAIN requests : requests[i].path = "/{project}/sections"}

\* C13: a hierarchy path whose first segment is empty after trimming (the
\* empty string, white space only, a path that starts with '>') gives no
\* ids and no network request: sections are requested at most once per
\* other path, exactly so when the PUT goes out, and when every path is of
\* that kind the PUT carries the caller's section_subtree_ids alone.
C13_EmptyFirstSegmentNoRequest ==
    tool = "fr_add_testcases_to_testrun" =>
        LET others == {j \in DOMAIN GivenPaths : ~FirstSegmentEmpty(GivenPaths[j])} IN
        /\ Cardinality(SectionsRequests) <= Cardinality(others)
        /\ TestRunPutSent =>
              /\ Cardinality(SectionsRequests) = Cardinality(others)
              /\ others = {} =>
                    PutBody.section_subtree_ids = StrEach(OrEmpty(args.section_subtree_ids))

\* C13: two paths, one of white space and one that starts with '>', and the
\* PUT went out
C13_Witness ==
    /\ TestRunPutSent
    /\ Len(GivenPaths) = 2
    /\ GivenPaths[1] = <<" ">>
    /\ GivenPaths[2] = <<">", "A">>
    /\ SectionsRequests = {}
    /\ PutBody.section_subtree_ids = <<>>

\* the ids the hierarchy paths resolved to, in path order: the k-th sections
\* response answers the k-th path that needs one
RECURSIVE ResolvedFrom(_, _)
ResolvedFrom(j, k) ==
    IF j > Len(GivenPaths) THEN <<>>
    ELSE IF PathIsEmpty(GivenPaths[j]) THEN ResolvedFrom(j + 1, k)
    ELSE LET items == responses[Len(args.test_case_keys) + k].body.items
         IN  find_sections_by_path(items, RootSections(items), PathParts(GivenPaths[j]))
                \o ResolvedFrom(j + 1, k + 1)

\* a Python value of the body as the JSON value it is sent as
AsJson(texts) == [i \in DOMAIN texts |-> JStr(texts[i])]

\* C15 as stated: the section_subtree_ids sent are the ids resolved from the
\* hierarchy paths, in path order, then the caller's section_subtree_ids as
\* given, nothing removed: [5] and [7] are sent as [5, 7].
C15_ResolvedThenGivenIds ==
    TestRunPutSent =>
        AsJson(PutBody.section_subtree_ids) =
            [i \in DOMAIN ResolvedFrom(1, 1) |-> JInt(ResolvedFrom(1, 1)[i])]
                \o OrEmpty(args.section_subtree_ids)

\* C15, amended: the section_subtree_ids sent are the ids resolved from the
\* hierarchy paths, in path order, then the caller's section_subtree_ids in
\* their order, nothing removed, every one of them as text: [5] and [7] are
\* sent as ["5", "7"].
C15_ResolvedThenGivenAsText ==
    TestRunPutSent =>
        PutBody.section_subtree_ids =
            [i \in DOMAIN ResolvedFrom(1, 1) |-> FormatDigits(ResolvedFrom(1, 1)[i])]
                \o StrEach(OrEmpty(args.section_subtree_ids))

\* C15: "A > b" resolved to 2 and 3, the caller gave 2 and "8": 2 is sent twice
C15_Witness ==
    /\ TestRunPutSent
    /\ Len(GivenPaths) = 1
    /\ PutBody.section_subtree_ids = <<<<"2">>, <<"3">>, <<"2">>, <<"8">>>>

\* C19 as stated: filter_rule and section_ids reach the PUT body with the
\* same elements, of the same types, in the same order, and each is empty
\* when the caller gave none.
C19_PassedThroughVerbatim ==
    TestRunPutSent =>
        /\ PutBody.filter_rule = OrEmpty(args.filter_rule)
        /\ AsJson(PutBody.section_ids) = OrEmpty(args.section_ids)

\* C19, amended: filter_rule reaches the PUT body with the same elements in
\* the same order; section_ids reaches it with as many elements in the same
\* order, each as the text str() gives for it; each is empty when the
\* caller gave none.
C19_FilterVerbatimSectionIdsAsText ==
    TestRunPutSent =>
        /\ PutBody.filter_rule = OrEmpty(args.filter_rule)
        /\ PutBody.section_ids = StrEach(OrEmpty(args.section_ids))
        /\ ~args.filter_rule.given => PutBody.filter_rule = <<>>
        /\ ~args.section_ids.given => PutBody.section_ids = <<>>

\* C19: both given, section_ids with a number in it
C19_Witness ==
    /\ TestRunPutSent
    /\ args.filter_rule.given /\ PutBody.filter_rule = <<JStr(s_x), JInt(1)>>
    /\ args.section_ids.given /\ PutBody.section_ids = <<<<"7">>, s_x, <<"7">>>>

(***************************************************************************)
(* The composite operations: lookups, then one mutating request.           *)
(***************************************************************************)
Composite == tool \in {"fr_create_task", "fr_link_testcase_issues", "fr_add_testcases_to_testrun"}

\* C16 as stated: in an invocation of a composite operation no request is
\* retried and once a remote request has failed no further request of any
\* kind is issued; the failure is the invocation's result.
C16_FailureEndsInvocation ==
    Composite =>
        \A i \in DOMAIN responses :
            Failed(responses[i]) =>
                /\ i = Len(requests)
                /\ result.kind = "return"
                /\ result.error # ""

Mutating == {i \in DOMAIN requests : requests[i].method \in {"POST", "PUT"}}

\* the lookup that request i is got a response that resolves
LookupResolved(i) ==
    CASE requests[i].path = "/{project}/project_issue_types" -> IssueTypeResolved(responses[i])
      [] requests[i].path = "/{project}/users" -> UserResolved(responses[i])
      [] requests[i].path = "/{project}/sections" -> ~TestRunPathFailed(responses[i])
      [] requests[i].path = "/{project}/test_cases/{key}"
            /\ tool = "fr_add_testcases_to_testrun" -> ~TestRunKeyFailed(responses[i])
      [] OTHER -> KeyResolved(responses[i])

\* C17: an invocation of a composite operation issues at most one mutating
\* request (POST or PUT), it is the last request of the invocation, and an
\* invocation that has ended with the configuration present and every
\* resolution successful has issued exactly one.
C17_OneMutatingRequestLast ==
    Composite =>
        /\ Cardinality(Mutating) <= 1
        /\ \A i \in Mutating : i = Len(requests)
        /\ (/\ pc = "done"
            /\ ~ConfigMissing
            /\ \A i \in DOMAIN responses : requests[i].method = "GET" => LookupResolved(i))
              => Cardinality(Mutating) = 1

\* C17: fr_create_task resolved the issue type and the user, posted, and
\* returned what the POST gave
C17_Witness ==
    /\ tool = "fr_create_task"
    /\ pc = "done"
    /\ Len(requests) = 3
    /\ Mutating = {3}
    /\ result.kind = "return" /\ result.error = ""

(***************************************************************************)
(* The issue type of a created task.                                       *)
(***************************************************************************)
\* the requested name, "task" when it is absent or empty
DefaultedName ==
    IF args.issue_type_name = PyNone \/ args.issue_type_name.s = <<>>
    THEN <<"t", "a", "s", "k">>
    ELSE args.issue_type_name.s

\* C20: every fr_create_task invocation that passes the configuration check
\* issues the issue-type lookup, first of all; the name looked for is
\* "task" when issue_type_name is absent or empty; and the issue_type_id of
\* the POST body is the id that lookup resolved, never one of
\* additional_fields.
C20_IssueTypeAlwaysResolved ==
    (tool = "fr_create_task" /\ ~ConfigMissing) =>
        /\ requests # <<>>
        /\ requests[1].method = "GET"
        /\ requests[1].path = "/{project}/project_issue_types"
        /\ \A i \in DOMAIN requests :
              requests[i].method = "POST" =>
                 LET items == responses[1].body.items
                     hits == {j \in NameHits(items, DefaultedName) : items[j].isdict}
                 IN  /\ i > 1
                     /\ hits # {}
                     /\ "issue_type_id" \in DOMAIN requests[i].body
                     /\ requests[i].body["issue_type_id"] = DictGet(items[First(hits)].d, "id")
                     /\ requests[i].body["issue_type_id"] # PyNone

\* C20: issue_type_name is the empty string, additional_fields carries an
\* issue_type_id of its own, and the POST has the id of the listing's task
C20_Witness ==
    /\ tool = "fr_create_task"
    /\ args.issue_type_name = JStr(<<>>)
    /\ args.additional_fields.given
    /\ "issue_type_id" \in DOMAIN args.additional_fields.d
    /\ Len(requests) >= 2
    /\ requests[Len(requests)].method = "POST"
    /\ requests[Len(requests)].body["issue_type_id"] # args.additional_fields.d["issue_type_id"]

(***************************************************************************)
(* parse_link_header.                                                      *)
(***************************************************************************)
\* the segments a header can have been written from
WrittenFrom(header) == {w[2] : w \in {v \in LinkHeadersWritten : v[1] = header}}

\* the segments of the relation rel
WithRel(segments, rel) == {k \in DOMAIN segments : segments[k].rel = rel}

\* the page parameters of a url
PageParams(query) == {k \in DOMAIN query : query[k].name = s_page}

\* the page number the url carries
PageOf(query) == ParseDigits(query[First(PageParams(query))].value, 0)

Parsed == tool = "parse_link_header" /\ result.kind = "return" /\ result.error = ""

\* next or prev is decoded as the claim says for the segments the header was written from
DecodedAsWritten(segments, rel) ==
    /\ WithRel(segments, rel) = {} => result.value[rel] = PyNone
    /\ \A k \in WithRel(segments, rel) :
          (WithRel(segments, rel) = {k} /\ PageParams(segments[k].query) # {}) =>
             result.value[rel] = JInt(PageOf(segments[k].query))

\* C18: for every header of comma-separated segments <url>; rel="name",
\* parse_link_header returns a result; in it next and prev are the page
\* number carried by the url of the one segment of that relation, a relation
\* with no segment stays None, and the empty header gives None and None.
C18_NextPrevFromSegments ==
    tool = "parse_link_header" =>
        /\ Parsed
        /\ {s_next, s_prev} \subseteq DOMAIN result.value
        /\ \A segments \in WrittenFrom(args) :
              \A rel \in {s_next, s_prev} : DecodedAsWritten(segments, rel)
        /\ args = <<>> => result.value = NoPagination

\* the segments of the relation rel whose url carries a page number
Carrying(segments, rel) ==
    {k \in WithRel(segments, rel) : PageParams(segments[k].query) # {}}

\* C21: for every header parse_link_header returns a record whose only
\* fields are next and prev; a malformed segment, a segment without a page
\* number and a segment of another relation raise nothing and leave the
\* record as it was: next and prev are set only by a segment of that
\* relation whose url carries a page number.
C21_OnlyNextPrevSkippingTheRest ==
    tool = "parse_link_header" =>
        /\ Parsed
        /\ DOMAIN result.value = {s_next, s_prev}
        /\ args \in MalformedHeaders => result.value = NoPagination
        /\ \A segments \in WrittenFrom(args) :
              \A rel \in {s_next, s_prev} :
                 Carrying(segments, rel) = {} => result.value[rel] = PyNone

(***************************************************************************)
(* Section hierarchy paths that match nothing.                             *)
(***************************************************************************)
\* the section at position i names a parent that is not in the listing
Dangling(items, i) ==
    /\ DictGet(items[i].d, "parent_id") # PyNone
    /\ \A j \in DOMAIN items :
          DictGet(items[j].d, "id") # DictGet(items[i].d, "parent_id")

\* C22: for a path with a non-empty first segment the resolver returns (the
\* invocation goes on to its PUT, it does not end in an error); it returns
\* the empty list when no chain from a root matches the whole path, and a
\* section outside every such chain, as one with a dangling parent_id is,
\* adds no id: there are as many ids as matching chains.
C22_NoMatchIsEmptyNotError ==
    (ForestAnswered /\ Segments[1] # <<>>) =>
        /\ Len(requests) = 2 /\ requests[2].method = "PUT"
        /\ result.kind # "raise"
        /\ Chains(ForestItems, Segments) = {} =>
              requests[2].body.section_subtree_ids = <<>>
        /\ Len(requests[2].body.section_subtree_ids)
              = Cardinality(Chains(ForestItems, Segments))

\* C22: no chain matches, a section with a dangling parent_id carries the
\* name of the last segment, and the PUT is sent with no section id
C22_Witness ==
    /\ ForestAnswered
    /\ Segments[1] # <<>>
    /\ Chains(ForestItems, Segments) = {}
    /\ \E i \in DOMAIN ForestItems :
          /\ Dangling(ForestItems, i)
          /\ StripLower(FieldOrEmpty(ForestItems[i], "name")) = Segments[Len(Segments)]
    /\ Len(requests) = 2
    /\ requests[2].method = "PUT"
    /\ requests[2].body.section_subtree_ids = <<>>

(***************************************************************************)
(* The ids the section hierarchy resolver returns.                         *)
(***************************************************************************)
\* the chains of sections whose normalised names are the segments in order,
\* each the child of the one before, that start at a section with a parent
UnrootedChains(items, segments) ==
    {c \in [DOMAIN segments -> DOMAIN items] :
        /\ DictGet(items[c[1]].d, "parent_id") # PyNone
        /\ \A k \in DOMAIN segments :
              StripLower(FieldOrEmpty(items[c[k]], "name")) = segments[k]
        /\ \A k \in DOMAIN segments :
              k > 1 => DictGet(items[c[k]].d, "parent_id") = DictGet(items[c[k - 1]].d, "id")}

\* the id of the section that ends the chain c
LeafId(items, c) == DictGet(items[c[Len(c)]].d, "id")

\* the chains from a root that end in a section with the integer id n
RootedEndingIn(items, segments, n) ==
    {c \in Chains(items, segments) : LeafId(items, c) = JInt(n)}

\* the integer ids of the listing
IntegerIds(items) ==
    {DictGet(items[i].d, "id").n : i \in {j \in DOMAIN items : DictGet(items[j].d, "id").t = "int"}}

\* C24: every id the resolver returns (they reach the PUT as text, in
\* order) is the integer id of a section of the listing that ends a chain
\* matching the path segment by segment from a root section, one id per
\* such chain at most; a chain that matches the names but starts at a
\* section with a parent gives no id.
C24_IdsEndRootedChains ==
    ForestAnswered =>
        /\ Len(requests) = 2 /\ requests[2].method = "PUT"
        /\ LET sent == requests[2].body.section_subtree_ids
           IN  /\ \A i \in DOMAIN sent :
                     \E n \in IntegerIds(ForestItems) :
                        /\ sent[i] = FormatDigits(n)
                        /\ RootedEndingIn(ForestItems, Segments, n) # {}
               /\ \A n \in IntegerIds(ForestItems) :
                     Occurrences(sent, FormatDigits(n))
                        <= Cardinality(RootedEndingIn(ForestItems, Segments, n))

\* C24: one chain from a root ends in an integer id, another chain with the
\* same names starts below a root, a third ends in a text id, and the PUT
\* carries the one id
C24_Witness ==
    /\ ForestAnswered
    /\ Len(requests) = 2
    /\ UnrootedChains(ForestItems, Segments) # {}
    /\ \E c \in Chains(ForestItems, Segments) : LeafId(ForestItems, c).t = "str"
    /\ \E n \in IntegerIds(ForestItems) :
          /\ Cardinality(RootedEndingIn(ForestItems, Segments, n)) = 1
          /\ requests[2].body.section_subtree_ids = <<FormatDigits(n)>>

(***************************************************************************)
(* fr_get_testcases_by_section.                                            *)
(***************************************************************************)
\* the sections request of the invocation was answered with a list of objects
BySectionListed ==
    /\ tool = "fr_get_testcases_by_section"
    /\ responses # <<>>
    /\ ~Failed(responses[1])
    /\ responses[1].body.islist
    /\ \A i \in DOMAIN responses[1].body.items : responses[1].body.items[i].isdict

\* the sections of the listing whose normalised name is the requested one,
\* in listing order
NamedSections ==
    LET IsNamed(x) == StripLower(FieldOrEmpty(x, "name")) = StripLower(args.section_name)
    IN  SelectSeq(responses[1].body.items, IsNamed)

\* C25: fr_get_testcases_by_section issues a test-case GET only after the
\* sections GET succeeded, the k-th for the k-th section of the listing
\* whose normalised name is the requested one, and one for each when it
\* returns results; with no such section it returns an error after the
\* sections GET alone; when a test-case GET fails, that GET is the last and
\* the invocation returns an error that carries none of the results.
C25_OneGetPerNamedSection ==
    tool = "fr_get_testcases_by_section" =>
        /\ requests # <<>> =>
              /\ requests[1].method = "GET" /\ requests[1].path = "/{project}/sections"
        /\ Len(requests) >= 2 => BySectionListed
        /\ \A i \in DOMAIN requests :
              i >= 2 =>
                 /\ requests[i].method = "GET"
                 /\ requests[i].path = "/{project}/test_cases"
                 /\ i - 1 <= Len(NamedSections)
                 /\ requests[i].key = StrOf(DictGet(NamedSections[i - 1].d, "id"))
        /\ (BySectionListed /\ NamedSections = <<>>) =>
              /\ Len(requests) = 1
              /\ result.kind = "return" /\ result.error # ""
        /\ (pc = "done" /\ result.kind = "return" /\ result.error = "") =>
              Len(requests) = 1 + Len(NamedSections)
        /\ \A i \in DOMAIN responses :
              (i >= 2 /\ Failed(responses[i])) =>
                 /\ i = Len(requests)
                 /\ result.kind = "return" /\ result.error # ""
                 /\ result.value = NoBody

(***************************************************************************)
(* Concurrent invocations.                                                 *)
(***************************************************************************)
\* the frame of invocation i, running or parked
FrameOf(i) == IF i = loop.running THEN Frame ELSE loop.parked[i]

\* the invocation with frame g got the responses the one with frame f got,
\* or the first of them
SameResponsesSoFar(f, g) ==
    /\ Len(g.responses) <= Len(f.responses)
    /\ \A k \in DOMAIN g.responses :
          /\ g.responses[k].kind = f.responses[k].kind
          /\ g.responses[k].json = f.responses[k].json
          /\ g.responses[k].json => g.responses[k].body = f.responses[k].body

\* the two results are the same return value, error or exception
SameResult(x, y) ==
    /\ x.kind = y.kind
    /\ x.error = y.error
    /\ x.details.has = y.details.has
    /\ x.details.none = y.details.none
    /\ (x.details.has /\ ~x.details.none) => x.details.val = y.details.val
    /\ (x.kind = "return" /\ x.error = "") => x.value = y.value

\* C23: an invocation interleaved in any way with others issues the
\* requests and ends with the result of an invocation of the same tool
\* with the same arguments that ran alone, before any other was called,
\* and got the same responses: request for request while it runs, and the
\* same result once both have returned.
C23_InterleavedAsAlone ==
    \A i \in loop.alone : \A j \in Invocations \ {i} :
        LET f == FrameOf(i)
            g == FrameOf(j)
        IN  (g.tool = f.tool /\ g.args = f.args /\ SameResponsesSoFar(f, g)) =>
               /\ Len(g.requests) <= Len(f.requests)
               /\ \A k \in DOMAIN g.requests : g.requests[k] = f.requests[k]
               /\ Len(g.responses) < Len(g.requests) => g.pc # "done"
               /\ Len(g.responses) = Len(f.responses) =>
                     /\ g.pc = f.pc
                     /\ Len(g.requests) = Len(f.requests)
                     /\ SameResult(g.result, f.result)

\* C23: a ran alone and sent its PUT; b and c each wait for a response at
\* the same time; b got the responses a got and c got another
C23_Witness ==
    /\ "a" \in loop.alone
    /\ Len(FrameOf("a").requests) = 3
    /\ FrameOf("b").pc = "testrun_put"
    /\ FrameOf("b").args = FrameOf("a").args
    /\ SameResponsesSoFar(FrameOf("a"), FrameOf("b"))
    /\ FrameOf("b").requests[3] = FrameOf("a").requests[3]
    /\ FrameOf("c").pc = "testrun_sections"
    /\ FrameOf("c").responses[1].body # FrameOf("a").responses[1].body

====
